---- MODULE Spec2Model ----
(***************************************************************************)
(* The bubble shooter of src/game as a state machine.                      *)
(*                                                                         *)
(* One action per Bevy system of the Update schedule, plus the two         *)
(* command synchronisation points between them and the frame boundary.     *)
(* Bevy orders only what the plugins order explicitly; `sched` is one      *)
(* linear extension of those constraints, fixed when the schedule is       *)
(* built, and `pc` walks through it once per frame.                        *)
(*                                                                         *)
(* Units: y is in pixels.  x is counted in half hex widths, that is in     *)
(* multiples of HEX_SIZE * SQRT_3 / 2 (about 17.32 px), so that the centre *)
(* of cell (q, r) sits at x = 2q (+1 on an odd row) and every squared      *)
(* distance 300 * dx^2 + dy^2 is an exact integer number of px^2.          *)
(***************************************************************************)
EXTENDS Integers, Sequences, FiniteSets, TLC

\* ------------------------------------------------------------------ bounds
\* shots the player fires in one run
MaxShots == 2
\* the functions of hex.rs are called on the cells with |q|, |r| <= MaxProbe
MaxProbe == 3
\* the grid origins tried are those of the levels 1..MaxLevel
MaxLevel == 19

\* --------------------------------------------------------------- constants
HEX_SIZE == 20
\* the variants of BubbleColor
NumColors == 6
GRID_ORIGIN_Y == 250
MIN_Q == -6
MAX_Q == 6
MIN_R == 0
MAX_R == 13
RING_SEARCH_CAP == 1000
LEFT_WALL == -245
RIGHT_WALL == 245
TOP_WALL == 280
SHOOTER_Y == -210
MIN_CLUSTER_SIZE == 3
POINTS_PER_BUBBLE == 10
FLOATING_BONUS_MULTIPLIER == 2
MAX_HIGH_SCORES == 10
INITIAL_ROWS == 5
INITIAL_SHOTS_UNTIL_DESCENT == 8
MIN_SHOTS_UNTIL_DESCENT == 5

\* projectile.rs: the line below which a landing is refused
DANGER_LINE_Y == SHOOTER_Y + 80
\* state.rs: the line below which a bubble loses the game
STATE_DANGER_LINE_Y == SHOOTER_Y + 40
\* hex.rs: vertical distance between two rows, size * 1.5
RowHeight == (HEX_SIZE * 3) \div 2
\* projectile.rs: let radius = HEX_SIZE * 0.9
Radius == (HEX_SIZE * 9) \div 10
\* (HEX_SIZE * SQRT_3 / 2)^2: the square of one x unit, in px^2
XUnit2 == (3 * HEX_SIZE * HEX_SIZE) \div 4

Colors == 1..NumColors
\* the colours the random draws of a run come from: the first two variants
DrawnColors == 1..2
\* the colour reload_shooter draws for the third preview
ReloadDraws == {1}
NoCell == <<>>

\* ----------------------------------------------------------------- helpers
SeqToSet(s) == {s[i] : i \in 1..Len(s)}

Abs(n) == IF n < 0 THEN -n ELSE n

Max2(a, b) == IF a > b THEN a ELSE b

\* f32::round of n / d for d > 0: to nearest, halves away from zero
RoundDiv(n, d) == IF n >= 0 THEN (2 * n + d) \div (2 * d) ELSE -((2 * (-n) + d) \div (2 * d))

\* ------------------------------------------------------------------ hex.rs
IsOddRow(r) == r % 2 # 0

\* variant: the offsets of an even row for every row
neighbors_EvenRows(c) ==
    LET q == c[1]
        r == c[2]
    IN << <<q + 1, r>>, <<q, r - 1>>, <<q - 1, r - 1>>,
          <<q - 1, r>>, <<q - 1, r + 1>>, <<q, r + 1>> >>

neighbors(c) ==
    LET q == c[1]
        r == c[2]
    IN IF IsOddRow(r)
       THEN << <<q + 1, r>>, <<q + 1, r - 1>>, <<q, r - 1>>,
               <<q - 1, r>>, <<q, r + 1>>, <<q + 1, r + 1>> >>
       ELSE << <<q + 1, r>>, <<q, r - 1>>, <<q - 1, r - 1>>,
               <<q - 1, r>>, <<q - 1, r + 1>>, <<q, r + 1>> >>

\* HexCoord::s, the third cube coordinate
cube_s(c) == -c[1] - c[2]

distance(a, b) ==
    LET dq == Abs(a[1] - b[1])
        dr == Abs(a[2] - b[2])
        ds == Abs(cube_s(a) - cube_s(b))
    IN (dq + dr + ds) \div 2

\* <<x, y>> of the centre of cell c when row 0 sits at y = origin
to_pixel_with_offset(c, origin) ==
    << 2 * c[1] + (IF IsOddRow(c[2]) THEN 1 ELSE 0), origin - RowHeight * c[2] >>

\* variant: only the rows r > 0 with remainder 1 count as odd
from_pixel_with_offset_PositiveOdd(pos, origin) ==
    LET r == RoundDiv(origin - pos[2], RowHeight)
        row_offset == IF r > 0 /\ r % 2 = 1 THEN 1 ELSE 0
    IN << RoundDiv(pos[1] - row_offset, 2), r >>

from_pixel_with_offset(pos, origin) ==
    LET r == RoundDiv(origin - pos[2], RowHeight)
        row_offset == IF IsOddRow(r) THEN 1 ELSE 0
    IN << RoundDiv(pos[1] - row_offset, 2), r >>

\* squared pixel distance between two positions
Distance2(a, b) == XUnit2 * (a[1] - b[1]) * (a[1] - b[1]) + (a[2] - b[2]) * (a[2] - b[2])

\* ----------------------------------------------------------------- grid.rs
\* A grid is a function from the occupied cells to the bubble stored there:
\* [id, color, live, y].  `live` says that the deferred spawn of the entity
\* has been applied, so that its components answer a query; `y` is the y of
\* its Transform.
contains(c) == c[1] >= MIN_Q /\ c[1] <= MAX_Q /\ c[2] >= MIN_R /\ c[2] <= MAX_R

is_occupied(g, c) == c \in DOMAIN g

is_adjacent_to_bubble(g, c) == \E i \in 1..6 : is_occupied(g, neighbors(c)[i])

insert(g, c, b) == [k \in DOMAIN g \cup {c} |-> IF k = c THEN b ELSE g[k]]

remove(g, c) == [k \in DOMAIN g \ {c} |-> g[k]]

is_empty(g) == DOMAIN g = {}

\* variant: the top row is row 0
top_row_coords_RowZero(g) == {c \in DOMAIN g : c[2] = MIN_R}

top_row_coords(g) ==
    IF DOMAIN g = {} THEN {}
    ELSE LET min_r == CHOOSE m \in {c[2] : c \in DOMAIN g} :
                          \A c \in DOMAIN g : m <= c[2]
         IN {c \in DOMAIN g : c[2] = min_r}

\* variant: occupied cells count as well
IsLegalEmpty_Occupied(g, c) == contains(c) \/ is_adjacent_to_bubble(g, c)

\* a cell a projectile may land in
IsLegalEmpty(g, c) == (contains(c) \/ is_adjacent_to_bubble(g, c)) /\ ~is_occupied(g, c)

\* The for loop of closest_empty_cell looks at the cell at index i of
\* to_check unless it is in `checked` or stands earlier in to_check (then
\* the pass has put it in `checked`).
LookedAt(to_check, checked, i) ==
    /\ to_check[i] \notin checked
    /\ \A j \in 1..(i - 1) : to_check[j] # to_check[i]

\* what the cell at index i adds to the next ring: its neighbours that are
\* not checked by then
PushedAt(to_check, checked, i) ==
    IF LookedAt(to_check, checked, i)
    THEN SelectSeq(neighbors(to_check[i]),
                   LAMBDA n : n \notin checked /\ \A j \in 1..i : to_check[j] # n)
    ELSE <<>>

\* the next ring that the cells at indices lo..hi of to_check leave
RECURSIVE NextRing(_, _, _, _)
NextRing(to_check, checked, lo, hi) ==
    IF lo > hi THEN <<>>
    ELSE IF lo = hi THEN PushedAt(to_check, checked, lo)
    ELSE NextRing(to_check, checked, lo, (lo + hi) \div 2)
         \o NextRing(to_check, checked, (lo + hi) \div 2 + 1, hi)

\* One pass of the for loop of closest_empty_cell over to_check: the first
\* cell looked at that is legal ends the search; otherwise the pass leaves
\* the next ring and the cells checked.
ScanRing(g, to_check, checked) ==
    IF \E i \in 1..Len(to_check) :
           LookedAt(to_check, checked, i) /\ IsLegalEmpty(g, to_check[i])
    THEN [cell |-> to_check[CHOOSE i \in 1..Len(to_check) :
                               /\ LookedAt(to_check, checked, i)
                               /\ IsLegalEmpty(g, to_check[i])
                               /\ \A j \in 1..(i - 1) :
                                      ~IsLegalEmpty(g, to_check[j])
                                      \/ to_check[j] \in checked],
          next_ring |-> <<>>, checked |-> checked]
    ELSE [cell |-> NoCell, next_ring |-> NextRing(to_check, checked, 1, Len(to_check)),
          checked |-> checked \cup SeqToSet(to_check)]

\* The while loop of closest_empty_cell: ring after ring, until a pass finds
\* a cell, the next ring is empty, or more cells than the cap are checked.
\* (pass ranges over the one result of the scan, so that it is a value.)
RECURSIVE RingSearch(_, _, _)
RingSearch(g, to_check, checked) ==
    CHOOSE found \in
        { IF pass.cell # NoCell THEN pass.cell
          ELSE IF Cardinality(pass.checked) > RING_SEARCH_CAP \/ pass.next_ring = <<>>
               THEN NoCell
               ELSE RingSearch(g, pass.next_ring, pass.checked) :
          pass \in {ScanRing(g, to_check, checked)} } : TRUE

\* variant: no ring search
closest_empty_cell_TargetOnly(g, pos, origin) ==
    LET target == from_pixel_with_offset(pos, origin)
    IN IF IsLegalEmpty(g, target) THEN target ELSE NoCell

closest_empty_cell(g, pos, origin) ==
    LET target == from_pixel_with_offset(pos, origin)
    IN IF IsLegalEmpty(g, target) THEN target
       ELSE RingSearch(g, <<target>>, {})

\* -------------------------------------------------------------- cluster.rs
\* The breadth-first search of find_cluster.  A dequeued cell joins the
\* cluster only if the grid holds an entity there, the bubble query answers
\* for that entity, and its colour is the target colour.
RECURSIVE ClusterLoop(_, _, _, _, _)
ClusterLoop(g, target_color, queue, visited, cluster) ==
    IF queue = <<>> THEN cluster
    ELSE LET coord == Head(queue)
         IN IF is_occupied(g, coord) /\ g[coord].live /\ g[coord].color = target_color
            THEN LET fresh == SelectSeq(neighbors(coord), LAMBDA n : n \notin visited)
                 IN ClusterLoop(g, target_color, Tail(queue) \o fresh,
                                visited \cup SeqToSet(fresh), Append(cluster, coord))
            ELSE ClusterLoop(g, target_color, Tail(queue), visited, cluster)

\* the start cell is taken without looking it up
find_cluster(g, start, target_color) ==
    ClusterLoop(g, target_color, neighbors(start),
                {start} \cup SeqToSet(neighbors(start)), <<start>>)

\* The search of find_anchored_bubbles from the top row, one breadth-first
\* level at a time (the result does not depend on the order in the queue).
RECURSIVE AnchorLoop(_, _, _)
AnchorLoop(g, frontier, anchored) ==
    IF frontier = {} THEN anchored
    ELSE LET reached == {n \in UNION {SeqToSet(neighbors(c)) : c \in frontier} :
                            is_occupied(g, n) /\ n \notin anchored}
         IN AnchorLoop(g, reached, anchored \cup reached)

find_anchored_bubbles(g) == AnchorLoop(g, top_row_coords(g), top_row_coords(g))

\* What detect_clusters does with one landed message once the cluster is
\* known: the cells `removed` leave the grid and, if `popping`, one popped
\* message is written.  log keeps, for each message, the grid before and
\* after and what was written.
LandedOutcome(acc, ev, cluster, popping, removed) ==
    LET after == [k \in DOMAIN acc.grid \ removed |-> acc.grid[k]]
        emitted == IF popping
                   THEN << [coords |-> cluster, color |-> ev.color,
                            count |-> Len(cluster), age |-> 0] >>
                   ELSE <<>>
    IN [grid |-> after,
        popped |-> acc.popped \o emitted,
        log |-> Append(acc.log, [coord |-> ev.coord, color |-> ev.color,
                                 cluster |-> cluster, before |-> acc.grid,
                                 after |-> after, emitted |-> emitted])]

\* variant: a pair is enough to pop
ProcessLanded_PopsPairs(acc, ev) ==
    LET cluster == find_cluster(acc.grid, ev.coord, ev.color)
        popping == Len(cluster) >= MIN_CLUSTER_SIZE - 1
    IN LandedOutcome(acc, ev, cluster, popping,
                     IF popping THEN SeqToSet(cluster) ELSE {})

\* variant: the pop is reported and the removal left for later
ProcessLanded_KeepsCells(acc, ev) ==
    LET cluster == find_cluster(acc.grid, ev.coord, ev.color)
    IN LandedOutcome(acc, ev, cluster, Len(cluster) >= MIN_CLUSTER_SIZE, {})

\* the body of the loop of detect_clusters
ProcessLanded(acc, ev) ==
    LET cluster == find_cluster(acc.grid, ev.coord, ev.color)
        popping == Len(cluster) >= MIN_CLUSTER_SIZE
    IN LandedOutcome(acc, ev, cluster, popping,
                     IF popping THEN SeqToSet(cluster) ELSE {})

RECURSIVE FoldLanded(_, _)
FoldLanded(acc, evs) ==
    IF evs = <<>> THEN acc ELSE FoldLanded(ProcessLanded(acc, Head(evs)), Tail(evs))

\* ------------------------------------------------------------ highscore.rs
RECURSIVE InsertPos(_, _, _)
InsertPos(scores, entry, i) ==
    IF i > Len(scores) THEN i
    ELSE IF entry.score > scores[i].score THEN i
    ELSE InsertPos(scores, entry, i + 1)

\* variant: the list is not trimmed
add_score_Untrimmed(scores, entry) ==
    IF entry.score = 0 THEN scores
    ELSE LET pos == InsertPos(scores, entry, 1)
         IN IF pos > MAX_HIGH_SCORES THEN scores
            ELSE SubSeq(scores, 1, pos - 1) \o <<entry>>
                 \o SubSeq(scores, pos, Len(scores))

\* HighScores::add_score, the value it returns
add_score_returns(scores, entry) ==
    IF entry.score = 0 THEN FALSE
    ELSE InsertPos(scores, entry, 1) <= MAX_HIGH_SCORES

\* HighScores::add_score, the list it leaves
add_score(scores, entry) ==
    IF entry.score = 0 THEN scores
    ELSE LET pos == InsertPos(scores, entry, 1)
         IN IF pos > MAX_HIGH_SCORES THEN scores
            ELSE LET grown == SubSeq(scores, 1, pos - 1) \o <<entry>>
                              \o SubSeq(scores, pos, Len(scores))
                 IN SubSeq(grown, 1, IF Len(grown) > MAX_HIGH_SCORES
                                     THEN MAX_HIGH_SCORES ELSE Len(grown))

\* ---------------------------------------------------------------- state.rs
\* variant: no floor of 5 shots
ShotsUntilDescentFor_NoFloor(lv) == Max2(0, INITIAL_SHOTS_UNTIL_DESCENT - (lv \div 10))

\* GameLevel::advance_level: max(5, 8 - level / 10), saturating at 0
ShotsUntilDescentFor(lv) ==
    Max2(MIN_SHOTS_UNTIL_DESCENT, Max2(0, INITIAL_SHOTS_UNTIL_DESCENT - (lv \div 10)))

\* GameLevel::shots_remaining: shots_until_descent - shots_this_round,
\* saturating at 0
shots_remaining(lvl) == Max2(0, lvl.shots_until_descent - lvl.shots_this_round)

\* ------------------------------------------------------------- powerups.rs
\* UnlockedPowerUps::has
has(pw, power) == \E i \in 1..Len(pw) : pw[i] = power

\* variant: pushes whether or not the power-up is there
add_Always(pw, power) == Append(pw, power)

\* UnlockedPowerUps::add
add(pw, power) == IF ~has(pw, power) THEN Append(pw, power) ELSE pw

AllPowerUps == {"SpeedySnord", "EagleEye", "LuckySnord", "BouncySnord",
                "Procrastisnord", "FortuneSnord", "ComboSnord", "Sharpshooter"}

\* check_bubble_collision: HEX_SIZE * 1.5 with Sharpshooter, else HEX_SIZE * 1.8
CollisionDistance(unl) ==
    IF "Sharpshooter" \in unl THEN (HEX_SIZE * 15) \div 10 ELSE (HEX_SIZE * 18) \div 10

\* ------------------------------------------------------- the Update schedule
\* HF handle_fire_input, RS reload_shooter, SP spawn_projectile,
\* MV move_projectile, WC check_wall_collision, BC check_bubble_collision,
\* AD1 the ApplyDeferred between the projectile and the cluster systems,
\* DC detect_clusters, AD2 the sync point of the chain, DF
\* detect_floating_bubbles, US update_score, HD handle_descent,
\* CW check_win_condition, CL check_lose_condition,
\* DZ check_danger_zone_game_over.
Systems == {"HF", "RS", "SP", "MV", "WC", "BC", "AD1", "DC", "AD2", "DF",
            "US", "HD", "CW", "CL", "DZ"}

\* the only ordering the plugins ask for
OrderedBefore == {<<"SP", "AD1">>, <<"MV", "AD1">>, <<"WC", "AD1">>, <<"BC", "AD1">>,
                  <<"AD1", "DC">>, <<"DC", "AD2">>, <<"AD2", "DF">>}

Position(s, name) == CHOOSE i \in 1..Len(s) : s[i] = name

IsSchedule(s) ==
    /\ Len(s) = Cardinality(Systems)
    /\ SeqToSet(s) = Systems
    /\ \A e \in OrderedBefore : Position(s, e[1]) < Position(s, e[2])

\* Linear extensions the executor may build: the order of registration, the
\* order the design describes, and four that move the unordered systems.
Schedules ==
    { <<"HF", "RS", "SP", "MV", "WC", "BC", "AD1", "DC", "AD2", "DF",
        "US", "HD", "CW", "CL", "DZ">>,
      <<"HF", "SP", "MV", "BC", "WC", "AD1", "DC", "AD2", "DF",
        "US", "CW", "CL", "DZ", "RS", "HD">>,
      <<"SP", "HF", "RS", "MV", "BC", "WC", "AD1", "DC", "AD2", "DF",
        "US", "HD", "CW", "CL", "DZ">>,
      <<"US", "CW", "CL", "DZ", "HD", "HF", "RS", "SP", "MV", "WC", "BC",
        "AD1", "DC", "AD2", "DF">>,
      <<"HF", "SP", "WC", "MV", "BC", "AD1", "RS", "HD", "DC", "AD2", "DF",
        "CW", "US", "CL", "DZ">>,
      <<"HF", "SP", "MV", "WC", "BC", "AD1", "DC", "RS", "HD", "AD2", "DF",
        "US", "CW", "CL", "DZ">> }

\* ------------------------------------------------------------------- state
VARIABLES
    sched,                \* the order of the systems in a frame
    pc,                   \* index in sched of the next system of this frame
    grid,                 \* HexGrid.bubbles
    grid_offset,          \* GridOffset.y
    projectiles,          \* the Projectile entities, spawned or about to be
    shooter,              \* Shooter, LoadedBubble, NextBubble, ...
    level,                \* GameLevel
    score,                \* GameScore
    powers,               \* UnlockedPowerUps.powers
    high_scores,          \* HighScores.scores
    fire_msgs,            \* FireProjectile, unread by spawn_projectile
    landed_msgs,          \* BubbleLanded, unread by detect_clusters
    popped_for_floating,  \* ClusterPopped, unread by detect_floating_bubbles
    popped_for_score,     \* ClusterPopped, unread by update_score
    floating_msgs,        \* FloatingBubblesRemoved, unread by update_score
    descent_msgs,         \* TriggerDescent, unread by handle_descent
    danger_msgs,          \* ProjectileInDangerZone, unread by the game over check
    menu,                 \* State<Menu>
    next_menu,            \* NextState<Menu>
    paused,               \* State<Pause>
    next_pause,           \* NextState<Pause>
    powerup_choices,      \* PowerUpChoices.choices
    next_entity,          \* the next entity id
    shots_fired,          \* number of shots of this run
    dc_log,               \* what detect_clusters did in this frame
    probe                 \* a call of a function of hex.rs or grid.rs on its own

vars == <<sched, pc, grid, grid_offset, projectiles, shooter, level, score, powers,
          high_scores, fire_msgs, landed_msgs, popped_for_floating, popped_for_score,
          floating_msgs, descent_msgs, danger_msgs, menu, next_menu, paused,
          next_pause, powerup_choices, next_entity, shots_fired, dc_log, probe>>

\* UnlockedPowerUps::has for every power-up: the unlocked power-ups as a set
unlocked == SeqToSet(powers)

Unset == "Unset"

\* the per-frame displacement velocity * dt of a shot, <<x units, px>>
Aims == {<<0, 40>>, <<1, 40>>, <<-1, 40>>}

\* --------------------------------------------------------- starting games
\* bubble.rs spawn_initial_bubbles: INITIAL_ROWS full rows; the colours are
\* random, here one draw with pairs of equal colours
FreshColor(q, r) == (((q + MAX_Q) \div 2 + r) % 2) + 1

FreshCells ==
    [i \in 1..(INITIAL_ROWS * (MAX_Q - MIN_Q + 1)) |->
        LET r == (i - 1) \div (MAX_Q - MIN_Q + 1)
            q == MIN_Q + ((i - 1) % (MAX_Q - MIN_Q + 1))
        IN <<q, r, FreshColor(q, r)>>]

\* Games in progress at level 2 (one descent: the top row is row -1).
\* Three bubbles left in the top row, far apart:
TopCells == << <<6, -1, 1>>, <<1, -1, 2>>, <<-2, -1, 1>> >>
\* two bubbles of one colour left, side by side in the top row:
PairCells == << <<0, -1, 1>>, <<1, -1, 1>> >>
\* a chain hanging below the top row, and one bubble apart from it:
ChainCells == << <<0, -1, 1>>, <<0, 0, 1>>, <<0, 1, 1>>, <<0, 2, 2>>, <<-3, -1, 2>> >>
\* a column that reaches down to the danger line:
DeepCells == [i \in 1..13 |-> <<0, i - 2, IF i % 2 = 0 THEN 2 ELSE 1>>]
\* A game in progress at level 19 (18 descents): one bubble left, in the
\* right corner of the lowest row above the danger line
FarCells == << <<6, -4, 1>> >>

OriginAt(lv) == GRID_ORIGIN_Y - RowHeight * (lv - 1)

\* the grid holding the given <<q, r, colour>> cells, all spawned
GridOf(cells, origin) ==
    [c \in {<<cells[i][1], cells[i][2]>> : i \in 1..Len(cells)} |->
        LET i == CHOOSE j \in 1..Len(cells) : <<cells[j][1], cells[j][2]>> = c
        IN [id |-> i, color |-> cells[i][3], live |-> TRUE,
            y |-> origin - RowHeight * c[2]]]

\* GameScore of a game at level lv that has n bubbles left after `shots`
\* shots, cp of which popped a cluster of three
StatsOf(lv, n, shots, cp) ==
    LET created == (INITIAL_ROWS + lv - 1) * (MAX_Q - MIN_Q + 1) + shots
        bp == created - n
    IN [score |-> POINTS_PER_BUBBLE * 3 * cp
                  + POINTS_PER_BUBBLE * FLOATING_BONUS_MULTIPLIER * (bp - 3 * cp),
        bubbles_popped |-> bp, clusters_popped |-> cp]

StartGames ==
    { [cells |-> FreshCells, level |-> 1, shots |-> 0,
       stats |-> [score |-> 0, bubbles_popped |-> 0, clusters_popped |-> 0]] }
    \cup { [cells |-> g[1], level |-> 2, shots |-> g[2],
            stats |-> StatsOf(2, Len(g[1]), INITIAL_SHOTS_UNTIL_DESCENT + g[2],
                              1 + g[2])] :
           g \in {<<TopCells, 0>>, <<PairCells, 0>>, <<ChainCells, 0>>, <<ChainCells, 7>>, <<DeepCells, 0>>} }
    \cup { [cells |-> FarCells, level |-> 19, shots |-> n,
            stats |-> StatsOf(19, Len(FarCells), 18 * INITIAL_SHOTS_UNTIL_DESCENT + n,
                              60)] :
           n \in {0, ShotsUntilDescentFor(19) - 1} }

\* no function is called on its own while the game runs
NoProbe == [fn |-> "none", a |-> <<0, 0>>, b |-> <<0, 0>>, pos |-> <<0, 0>>,
            done |-> FALSE, out |-> <<>>]

StartOf(orders, games) ==
    /\ sched \in orders
    /\ pc = 1
    /\ \E g \in games :
        /\ grid = GridOf(g.cells, OriginAt(g.level))
        /\ grid_offset = OriginAt(g.level)
        /\ level = [level |-> g.level,
                    shots_until_descent |-> ShotsUntilDescentFor(g.level),
                    shots_this_round |-> g.shots]
        /\ score = g.stats
        /\ next_entity = Len(g.cells) + 1
    /\ projectiles = <<>>
    /\ \E l \in DrawnColors :
        shooter = [state |-> "Ready", loaded |-> l, next |-> 3 - l,
                   second_next |-> 1, third_next |-> 1]
    /\ powers = <<>>
    /\ high_scores = <<>>
    /\ fire_msgs = <<>>
    /\ landed_msgs = <<>>
    /\ popped_for_floating = <<>>
    /\ popped_for_score = <<>>
    /\ floating_msgs = <<>>
    /\ descent_msgs = <<>>
    /\ danger_msgs = <<>>
    /\ menu = "None"
    /\ next_menu = Unset
    /\ paused = FALSE
    /\ next_pause = Unset
    /\ powerup_choices = <<>>
    /\ shots_fired = 0
    /\ dc_log = <<>>
    /\ probe = NoProbe

Init == StartOf(Schedules, StartGames)

\* ------------------------------------------------------------ the systems
Sys(name) == pc <= Len(sched) /\ sched[pc] = name

\* a Projectile entity that a query sees: spawned, and not yet despawned
\* (a queued despawn is applied at the next sync point only)
InQuery(p) == p.st \in {"live", "dying"}

NoProjectileInQuery == \A i \in 1..Len(projectiles) : ~InQuery(projectiles[i])

NewMsg(fields) == fields @@ [age |-> 0]

\* variant: fires whether or not a projectile is in the world
handle_fire_input_IgnoresProjectile ==
    /\ Sys("HF")
    /\ pc' = pc + 1
    /\ \E pressed \in BOOLEAN, aim \in Aims :
        IF /\ pressed
           /\ shots_fired < MaxShots
           /\ shooter.state = "Ready"
        THEN /\ fire_msgs' = Append(fire_msgs,
                                    NewMsg([direction |-> aim, color |-> shooter.loaded]))
             /\ shooter' = [shooter EXCEPT !.state = "Reloading"]
             /\ level' = [level EXCEPT !.shots_this_round = @ + 1]
             /\ shots_fired' = shots_fired + 1
        ELSE UNCHANGED <<fire_msgs, shooter, level, shots_fired>>
    /\ UNCHANGED <<sched, probe, grid, grid_offset, projectiles, score, powers, high_scores,
                   landed_msgs, popped_for_floating, popped_for_score, floating_msgs,
                   descent_msgs, danger_msgs, menu, next_menu, paused, next_pause,
                   powerup_choices, next_entity, dc_log>>

\* shooter.rs handle_fire_input
handle_fire_input ==
    /\ Sys("HF")
    /\ pc' = pc + 1
    /\ \E pressed \in BOOLEAN, aim \in Aims :
        IF /\ pressed
           /\ shots_fired < MaxShots
           /\ shooter.state = "Ready"
           /\ NoProjectileInQuery
        THEN /\ fire_msgs' = Append(fire_msgs,
                                    NewMsg([direction |-> aim, color |-> shooter.loaded]))
             /\ shooter' = [shooter EXCEPT !.state = "Reloading"]
             /\ level' = [level EXCEPT !.shots_this_round = @ + 1]
             /\ shots_fired' = shots_fired + 1
        ELSE UNCHANGED <<fire_msgs, shooter, level, shots_fired>>
    /\ UNCHANGED <<sched, probe, grid, grid_offset, projectiles, score, powers, high_scores,
                   landed_msgs, popped_for_floating, popped_for_score, floating_msgs,
                   descent_msgs, danger_msgs, menu, next_menu, paused, next_pause,
                   powerup_choices, next_entity, dc_log>>

\* variant: the bubbles move up a slot and the state is left as it was
reload_shooter_StaysReloading ==
    /\ Sys("RS")
    /\ pc' = pc + 1
    /\ IF shooter.state = "Reloading" /\ NoProjectileInQuery
       THEN \E drawn \in ReloadDraws :
                shooter' = [state |-> "Reloading", loaded |-> shooter.next,
                            next |-> shooter.second_next,
                            second_next |-> shooter.third_next,
                            third_next |-> drawn]
       ELSE UNCHANGED shooter
    /\ UNCHANGED <<sched, probe, grid, grid_offset, projectiles, level, score, powers,
                   high_scores, fire_msgs, landed_msgs, popped_for_floating,
                   popped_for_score, floating_msgs, descent_msgs, danger_msgs, menu,
                   next_menu, paused, next_pause, powerup_choices, next_entity,
                   shots_fired, dc_log>>

\* variant: Procrastisnord is not looked at
reload_shooter_PlainThreshold ==
    /\ Sys("RS")
    /\ pc' = pc + 1
    /\ IF shooter.state = "Reloading" /\ NoProjectileInQuery
       THEN /\ \E drawn \in ReloadDraws :
                shooter' = [state |-> "Ready", loaded |-> shooter.next,
                            next |-> shooter.second_next,
                            second_next |-> shooter.third_next,
                            third_next |-> drawn]
            /\ descent_msgs' = IF level.shots_this_round >= level.shots_until_descent
                               THEN Append(descent_msgs, [age |-> 0])
                               ELSE descent_msgs
       ELSE UNCHANGED <<shooter, descent_msgs>>
    /\ UNCHANGED <<sched, probe, grid, grid_offset, projectiles, level, score, powers,
                   high_scores, fire_msgs, landed_msgs, popped_for_floating,
                   popped_for_score, floating_msgs, danger_msgs, menu, next_menu,
                   paused, next_pause, powerup_choices, next_entity, shots_fired,
                   dc_log>>

\* shooter.rs reload_shooter
reload_shooter ==
    /\ Sys("RS")
    /\ pc' = pc + 1
    /\ IF shooter.state = "Reloading" /\ NoProjectileInQuery
       THEN /\ \E drawn \in ReloadDraws :
                shooter' = [state |-> "Ready", loaded |-> shooter.next,
                            next |-> shooter.second_next,
                            second_next |-> shooter.third_next,
                            third_next |-> drawn]
            /\ LET threshold == IF "Procrastisnord" \in unlocked
                                THEN level.shots_until_descent + 2
                                ELSE level.shots_until_descent
               IN descent_msgs' = IF level.shots_this_round >= threshold
                                  THEN Append(descent_msgs, [age |-> 0])
                                  ELSE descent_msgs
       ELSE UNCHANGED <<shooter, descent_msgs>>
    /\ UNCHANGED <<sched, probe, grid, grid_offset, projectiles, level, score, powers,
                   high_scores, fire_msgs, landed_msgs, popped_for_floating,
                   popped_for_score, floating_msgs, danger_msgs, menu, next_menu,
                   paused, next_pause, powerup_choices, next_entity, shots_fired,
                   dc_log>>

\* projectile.rs spawn_projectile: one queued spawn per fire message
RECURSIVE SpawnAll(_, _, _)
SpawnAll(msgs, projs, id) ==
    IF msgs = <<>> THEN projs
    ELSE LET m == Head(msgs)
             v == IF "SpeedySnord" \in unlocked
                  THEN <<(m.direction[1] * 5) \div 4, (m.direction[2] * 5) \div 4>>
                  ELSE m.direction
         IN SpawnAll(Tail(msgs),
                     Append(projs, [id |-> id, x |-> 0, y |-> SHOOTER_Y,
                                    vx |-> v[1], vy |-> v[2], color |-> m.color,
                                    st |-> "queued", landings |-> 0]),
                     id + 1)

spawn_projectile ==
    /\ Sys("SP")
    /\ pc' = pc + 1
    /\ projectiles' = SpawnAll(fire_msgs, projectiles, next_entity)
    /\ next_entity' = next_entity + Len(fire_msgs)
    /\ fire_msgs' = <<>>
    /\ UNCHANGED <<sched, probe, grid, grid_offset, shooter, level, score, powers,
                   high_scores, landed_msgs, popped_for_floating, popped_for_score,
                   floating_msgs, descent_msgs, danger_msgs, menu, next_menu, paused,
                   next_pause, powerup_choices, shots_fired, dc_log>>

\* projectile.rs move_projectile
move_projectile ==
    /\ Sys("MV")
    /\ pc' = pc + 1
    /\ projectiles' = [i \in 1..Len(projectiles) |->
                        LET p == projectiles[i]
                        IN IF InQuery(p)
                           THEN [p EXCEPT !.x = p.x + p.vx, !.y = p.y + p.vy]
                           ELSE p]
    /\ UNCHANGED <<sched, probe, grid, grid_offset, shooter, level, score, powers,
                   high_scores, fire_msgs, landed_msgs, popped_for_floating,
                   popped_for_score, floating_msgs, descent_msgs, danger_msgs, menu,
                   next_menu, paused, next_pause, powerup_choices, next_entity, shots_fired,
                   dc_log>>

\* pos.x - radius < LEFT_WALL and pos.x + radius > RIGHT_WALL, x in x units
HitsLeftWall(x) == x < 0 /\ XUnit2 * x * x > (LEFT_WALL + Radius) * (LEFT_WALL + Radius)

HitsRightWall(x) == x > 0 /\ XUnit2 * x * x > (RIGHT_WALL - Radius) * (RIGHT_WALL - Radius)

\* RIGHT_WALL - radius, to the x unit inside the wall
WallX ==
    CHOOSE n \in 0..(RIGHT_WALL - Radius) :
        /\ XUnit2 * n * n <= (RIGHT_WALL - Radius) * (RIGHT_WALL - Radius)
        /\ XUnit2 * (n + 1) * (n + 1) > (RIGHT_WALL - Radius) * (RIGHT_WALL - Radius)

\* bubble.rs spawn_bubble as land_projectile and handle_descent use it: the
\* entity is in the grid at once, its components come with the next sync
NewBubble(id, c, color, origin) ==
    [id |-> id, color |-> color, live |-> FALSE,
     y |-> to_pixel_with_offset(c, origin)[2]]

\* projectile.rs land_projectile, with the BubbleLanded message its callers
\* write; via and py record the path and the y of the projectile
LandProjectile(w, i, coord, color, via) ==
    [w EXCEPT
        !.projectiles[i].st = "dying",
        !.projectiles[i].landings = @ + 1,
        !.grid = insert(w.grid, coord, NewBubble(w.next_entity, coord, color, grid_offset)),
        !.next_entity = @ + 1,
        !.landed = Append(@, NewMsg([coord |-> coord, color |-> color,
                                     entity |-> w.next_entity,
                                     proj |-> w.projectiles[i].id, via |-> via,
                                     py |-> w.projectiles[i].y]))]

Despawn(w, i) == [w EXCEPT !.projectiles[i].st = "dying"]

\* variant: a projectile that finds no cell at the top wall flies on
WallStep_KeepsFlying(w, i) ==
    LET p == w.projectiles[i]
        coord == closest_empty_cell(w.grid, <<p.x, p.y>>, grid_offset)
    IN IF p.y + Radius <= TOP_WALL \/ coord = NoCell THEN w
       ELSE IF to_pixel_with_offset(coord, grid_offset)[2] < DANGER_LINE_Y
            THEN [Despawn(w, i) EXCEPT !.danger = Append(@, [age |-> 0])]
            ELSE LandProjectile(w, i, coord, p.color, "wall")

\* the body of the loop of check_wall_collision for the projectile at index i
WallStep(w, i) ==
    LET p == w.projectiles[i]
        left == HitsLeftWall(p.x)
        right == HitsRightWall(p.x)
        x1 == IF left THEN -WallX ELSE p.x
        vx1 == IF left THEN Abs(p.vx) ELSE p.vx
        x2 == IF right THEN WallX ELSE x1
        vx2 == IF right THEN -Abs(vx1) ELSE vx1
        w1 == [w EXCEPT !.projectiles[i].x = x2, !.projectiles[i].vx = vx2]
        w2 == IF p.y + Radius > TOP_WALL
              THEN LET coord == closest_empty_cell(w1.grid, <<p.x, p.y>>, grid_offset)
                   IN IF coord # NoCell
                      THEN IF to_pixel_with_offset(coord, grid_offset)[2] < DANGER_LINE_Y
                           THEN [Despawn(w1, i) EXCEPT !.danger = Append(@, [age |-> 0])]
                           ELSE LandProjectile(w1, i, coord, p.color, "wall")
                      ELSE Despawn(w1, i)
              ELSE w1
    IN IF p.y < SHOOTER_Y - 50 THEN Despawn(w2, i) ELSE w2

RECURSIVE WallLoop(_, _)
WallLoop(w, i) ==
    IF i > Len(w.projectiles) THEN w
    ELSE IF InQuery(w.projectiles[i]) THEN WallLoop(WallStep(w, i), i + 1)
    ELSE WallLoop(w, i + 1)

World == [grid |-> grid, projectiles |-> projectiles, next_entity |-> next_entity,
          landed |-> landed_msgs, danger |-> danger_msgs]

check_wall_collision ==
    /\ Sys("WC")
    /\ pc' = pc + 1
    /\ LET w == WallLoop(World, 1)
       IN /\ grid' = w.grid
          /\ projectiles' = w.projectiles
          /\ next_entity' = w.next_entity
          /\ landed_msgs' = w.landed
          /\ danger_msgs' = w.danger
    /\ UNCHANGED <<sched, probe, grid_offset, shooter, level, score, powers, high_scores,
                   fire_msgs, popped_for_floating, popped_for_score, floating_msgs,
                   descent_msgs, menu, next_menu, paused, next_pause, powerup_choices,
                   shots_fired, dc_log>>

\* the first pass of check_bubble_collision: projectile p touches a bubble
\* whose Transform the query can read
Collides(p, g) ==
    \E c \in DOMAIN g :
        /\ g[c].live
        /\ Distance2(<<p.x, p.y>>, <<to_pixel_with_offset(c, 0)[1], g[c].y>>)
               < CollisionDistance(unlocked) * CollisionDistance(unlocked)

\* index of the first projectile of the query that collides, 0 if none
FirstCollision ==
    LET hits == {i \in 1..Len(projectiles) :
                    InQuery(projectiles[i]) /\ Collides(projectiles[i], grid)}
    IN IF hits = {} THEN 0 ELSE CHOOSE i \in hits : \A j \in hits : i <= j

check_bubble_collision ==
    /\ Sys("BC")
    /\ pc' = pc + 1
    /\ LET i == FirstCollision
           w == IF i = 0 THEN World
                ELSE LET p == projectiles[i]
                     IN IF p.y < DANGER_LINE_Y
                        THEN [Despawn(World, i) EXCEPT !.danger = Append(@, [age |-> 0])]
                        ELSE LET coord == closest_empty_cell(grid, <<p.x, p.y>>, grid_offset)
                             IN IF coord # NoCell
                                THEN LandProjectile(World, i, coord, p.color, "bubble")
                                ELSE Despawn(World, i)
       IN /\ grid' = w.grid
          /\ projectiles' = w.projectiles
          /\ next_entity' = w.next_entity
          /\ landed_msgs' = w.landed
          /\ danger_msgs' = w.danger
    /\ UNCHANGED <<sched, probe, grid_offset, shooter, level, score, powers, high_scores,
                   fire_msgs, popped_for_floating, popped_for_score, floating_msgs,
                   descent_msgs, menu, next_menu, paused, next_pause, powerup_choices,
                   shots_fired, dc_log>>

\* a command sync point: queued spawns and despawns take effect
Flushed(projs) == SelectSeq([i \in 1..Len(projs) |->
                                IF projs[i].st = "queued"
                                THEN [projs[i] EXCEPT !.st = "live"]
                                ELSE projs[i]],
                            LAMBDA p : p.st # "dying")

Materialized(g) == [c \in DOMAIN g |-> [g[c] EXCEPT !.live = TRUE]]

ApplyDeferred(name) ==
    /\ Sys(name)
    /\ pc' = pc + 1
    /\ projectiles' = Flushed(projectiles)
    /\ grid' = Materialized(grid)
    /\ UNCHANGED <<sched, probe, grid_offset, shooter, level, score, powers, high_scores,
                   fire_msgs, landed_msgs, popped_for_floating, popped_for_score,
                   floating_msgs, descent_msgs, danger_msgs, menu, next_menu, paused,
                   next_pause, powerup_choices, next_entity, shots_fired, dc_log>>

apply_deferred_after_projectiles == ApplyDeferred("AD1")

apply_deferred_in_chain == ApplyDeferred("AD2")

\* cluster.rs detect_clusters
detect_clusters ==
    /\ Sys("DC")
    /\ pc' = pc + 1
    /\ LET done == FoldLanded([grid |-> grid, popped |-> <<>>, log |-> dc_log],
                              landed_msgs)
       IN /\ grid' = done.grid
          /\ popped_for_floating' = popped_for_floating \o done.popped
          /\ popped_for_score' = popped_for_score \o done.popped
          /\ dc_log' = done.log
    /\ landed_msgs' = <<>>
    /\ UNCHANGED <<sched, probe, grid_offset, projectiles, shooter, level, score, powers,
                   high_scores, fire_msgs, floating_msgs, descent_msgs, danger_msgs,
                   menu, next_menu, paused, next_pause, powerup_choices, next_entity,
                   shots_fired>>

\* cluster.rs detect_floating_bubbles
detect_floating_bubbles ==
    /\ Sys("DF")
    /\ pc' = pc + 1
    /\ popped_for_floating' = <<>>
    /\ LET floating == IF popped_for_floating = <<>> THEN {}
                       ELSE DOMAIN grid \ find_anchored_bubbles(grid)
       IN /\ grid' = [c \in DOMAIN grid \ floating |-> grid[c]]
          /\ floating_msgs' = IF floating # {}
                              THEN Append(floating_msgs,
                                          NewMsg([coords |-> floating,
                                                  count |-> Cardinality(floating)]))
                              ELSE floating_msgs
    /\ UNCHANGED <<sched, probe, grid_offset, projectiles, shooter, level, score, powers,
                   high_scores, fire_msgs, landed_msgs, popped_for_score, descent_msgs,
                   danger_msgs, menu, next_menu, paused, next_pause, powerup_choices,
                   next_entity, shots_fired, dc_log>>

\* variant: no combo bonus
ClusterPoints_NoBonus(ev, unl) == ev.count * POINTS_PER_BUBBLE

\* state.rs update_score
ClusterPoints(ev, unl) ==
    LET points == ev.count * POINTS_PER_BUBBLE
    IN IF "ComboSnord" \in unl /\ ev.count > 3 THEN points + (points \div 2) ELSE points

RECURSIVE ScoreClusters(_, _, _)
ScoreClusters(sc, evs, unl) ==
    IF evs = <<>> THEN sc
    ELSE ScoreClusters([score |-> sc.score + ClusterPoints(Head(evs), unl),
                        bubbles_popped |-> sc.bubbles_popped + Head(evs).count,
                        clusters_popped |-> sc.clusters_popped + 1],
                       Tail(evs), unl)

\* variant: floating bubbles score like popped ones
RECURSIVE ScoreFloating_Single(_, _)
ScoreFloating_Single(sc, evs) ==
    IF evs = <<>> THEN sc
    ELSE ScoreFloating_Single([sc EXCEPT
                                  !.score = @ + Head(evs).count * POINTS_PER_BUBBLE,
                                  !.bubbles_popped = @ + Head(evs).count],
                              Tail(evs))

RECURSIVE ScoreFloating(_, _)
ScoreFloating(sc, evs) ==
    IF evs = <<>> THEN sc
    ELSE ScoreFloating([sc EXCEPT
                           !.score = @ + Head(evs).count * POINTS_PER_BUBBLE
                                         * FLOATING_BONUS_MULTIPLIER,
                           !.bubbles_popped = @ + Head(evs).count],
                       Tail(evs))

\* variant: the score of the frame replaces the score of the run
update_score_FrameOnly ==
    /\ Sys("US")
    /\ pc' = pc + 1
    /\ score' = ScoreFloating(ScoreClusters([score |-> 0, bubbles_popped |-> 0,
                                             clusters_popped |-> 0],
                                            popped_for_score, unlocked),
                              floating_msgs)
    /\ popped_for_score' = <<>>
    /\ floating_msgs' = <<>>
    /\ UNCHANGED <<sched, probe, grid, grid_offset, projectiles, shooter, level, powers,
                   high_scores, fire_msgs, landed_msgs, popped_for_floating,
                   descent_msgs, danger_msgs, menu, next_menu, paused, next_pause,
                   powerup_choices, next_entity, shots_fired, dc_log>>

update_score ==
    /\ Sys("US")
    /\ pc' = pc + 1
    /\ score' = ScoreFloating(ScoreClusters(score, popped_for_score, unlocked),
                              floating_msgs)
    /\ popped_for_score' = <<>>
    /\ floating_msgs' = <<>>
    /\ UNCHANGED <<sched, probe, grid, grid_offset, projectiles, shooter, level, powers,
                   high_scores, fire_msgs, landed_msgs, popped_for_floating,
                   descent_msgs, danger_msgs, menu, next_menu, paused, next_pause,
                   powerup_choices, next_entity, shots_fired, dc_log>>

\* powerups.rs
for_tier(tier) ==
    IF tier = 1 THEN <<"SpeedySnord", "EagleEye", "LuckySnord", "BouncySnord">>
    ELSE <<"Procrastisnord", "FortuneSnord", "ComboSnord", "Sharpshooter">>

tier_for_level(lv) == IF lv < 15 THEN 1 ELSE 2

\* shuffle and take(3): the first power-ups of any reordering of the list
ShuffledTake(available) ==
    LET n == IF Len(available) < 3 THEN Len(available) ELSE 3
    IN { [i \in 1..n |-> available[f[i]]] :
         f \in {g \in [1..n -> 1..Len(available)] :
                   \A i, j \in 1..n : g[i] = g[j] => i = j} }

\* variant: the power-ups already unlocked stay in the list
random_choices_Unfiltered(lv, unl) == ShuffledTake(for_tier(tier_for_level(lv)))

\* the lists random_choices may return
random_choices(lv, unl) ==
    LET tier == tier_for_level(lv)
        own == SelectSeq(for_tier(tier), LAMBDA p : p \notin unl)
        other == SelectSeq(for_tier(IF tier = 1 THEN 2 ELSE 1), LAMBDA p : p \notin unl)
        available == IF Len(own) < 3 THEN own \o other ELSE own
    IN ShuffledTake(available)

\* the colours handle_descent draws for a new row: pairs of equal colours,
\* starting with colour a
RowColor(a, q) == ((a - 1 + (q + MAX_Q) \div 2) % Cardinality(DrawnColors)) + 1

\* handle_descent with one thing changed: the new row goes above row 0
\* ("row"), the danger check is left out ("danger"), or the power-ups are
\* offered every tenth level ("milestone")
DescentVariant(kind) ==
    /\ Sys("HD")
    /\ pc' = pc + 1
    /\ IF descent_msgs = <<>>
       THEN UNCHANGED <<grid, grid_offset, level, danger_msgs, next_menu, next_pause,
                        powerup_choices, next_entity, descent_msgs>>
       ELSE \E a \in DrawnColors :
            LET origin == grid_offset - RowHeight
                moved == [c \in DOMAIN grid |->
                            IF grid[c].live
                            THEN [grid[c] EXCEPT !.y = to_pixel_with_offset(c, origin)[2]]
                            ELSE grid[c]]
                min_r == IF DOMAIN grid = {} THEN 0
                         ELSE CHOOSE m \in {c[2] : c \in DOMAIN grid} :
                                  \A c \in DOMAIN grid : m <= c[2]
                new_row_r == IF kind = "row" THEN MIN_R - 1 ELSE min_r - 1
                row == {<<q, new_row_r>> : q \in MIN_Q..MAX_Q}
                grown == [c \in DOMAIN grid \cup row |->
                            IF c \in row
                            THEN NewBubble(next_entity + (c[1] - MIN_Q), c,
                                           RowColor(a, c[1]), origin)
                            ELSE moved[c]]
                too_low == kind # "danger" /\ \E c \in DOMAIN grown :
                               grown[c].live /\ grown[c].y < STATE_DANGER_LINE_Y
                advanced == level.level + 1
            IN /\ descent_msgs' = Tail(descent_msgs)
               /\ grid_offset' = origin
               /\ grid' = grown
               /\ next_entity' = next_entity + (MAX_Q - MIN_Q + 1)
               /\ IF too_low
                  THEN /\ danger_msgs' = Append(danger_msgs, [age |-> 0])
                       /\ UNCHANGED <<level, next_menu, next_pause, powerup_choices>>
                  ELSE /\ level' = [level |-> advanced,
                                    shots_until_descent |-> ShotsUntilDescentFor(advanced),
                                    shots_this_round |-> 0]
                       /\ danger_msgs' = danger_msgs
                       /\ IF /\ advanced % (IF kind = "milestone" THEN 10 ELSE 5) = 0
                             /\ random_choices(advanced, unlocked) # {<<>>}
                          THEN /\ powerup_choices' \in random_choices(advanced, unlocked)
                               /\ next_pause' = "Paused"
                               /\ next_menu' = "PowerUpSelect"
                          ELSE UNCHANGED <<next_menu, next_pause, powerup_choices>>
    /\ UNCHANGED <<sched, probe, projectiles, shooter, score, powers, high_scores, fire_msgs,
                   landed_msgs, popped_for_floating, popped_for_score, floating_msgs,
                   menu, paused, shots_fired, dc_log>>

handle_descent_RowAboveZero == DescentVariant("row")

handle_descent_NoDangerCheck == DescentVariant("danger")

handle_descent_EveryTenth == DescentVariant("milestone")

\* state.rs handle_descent
handle_descent ==
    /\ Sys("HD")
    /\ pc' = pc + 1
    /\ IF descent_msgs = <<>>
       THEN UNCHANGED <<grid, grid_offset, level, danger_msgs, next_menu, next_pause,
                        powerup_choices, next_entity, descent_msgs>>
       ELSE \E a \in DrawnColors :
            LET origin == grid_offset - RowHeight
                moved == [c \in DOMAIN grid |->
                            IF grid[c].live
                            THEN [grid[c] EXCEPT !.y = to_pixel_with_offset(c, origin)[2]]
                            ELSE grid[c]]
                min_r == IF DOMAIN grid = {} THEN 0
                         ELSE CHOOSE m \in {c[2] : c \in DOMAIN grid} :
                                  \A c \in DOMAIN grid : m <= c[2]
                new_row_r == min_r - 1
                row == {<<q, new_row_r>> : q \in MIN_Q..MAX_Q}
                grown == [c \in DOMAIN grid \cup row |->
                            IF c \in row
                            THEN NewBubble(next_entity + (c[1] - MIN_Q), c,
                                           RowColor(a, c[1]), origin)
                            ELSE moved[c]]
                too_low == \E c \in DOMAIN grown :
                               grown[c].live /\ grown[c].y < STATE_DANGER_LINE_Y
                advanced == level.level + 1
            IN /\ descent_msgs' = Tail(descent_msgs)
               /\ grid_offset' = origin
               /\ grid' = grown
               /\ next_entity' = next_entity + (MAX_Q - MIN_Q + 1)
               /\ IF too_low
                  THEN /\ danger_msgs' = Append(danger_msgs, [age |-> 0])
                       /\ UNCHANGED <<level, next_menu, next_pause, powerup_choices>>
                  ELSE /\ level' = [level |-> advanced,
                                    shots_until_descent |-> ShotsUntilDescentFor(advanced),
                                    shots_this_round |-> 0]
                       /\ danger_msgs' = danger_msgs
                       /\ IF advanced % 5 = 0 /\ random_choices(advanced, unlocked) # {<<>>}
                          THEN /\ powerup_choices' \in random_choices(advanced, unlocked)
                               /\ next_pause' = "Paused"
                               /\ next_menu' = "PowerUpSelect"
                          ELSE UNCHANGED <<next_menu, next_pause, powerup_choices>>
    /\ UNCHANGED <<sched, probe, projectiles, shooter, score, powers, high_scores, fire_msgs,
                   landed_msgs, popped_for_floating, popped_for_score, floating_msgs,
                   menu, paused, shots_fired, dc_log>>

ScoreEntry == [score |-> score.score, bubbles_popped |-> score.bubbles_popped]

\* variant: either condition is enough to win
check_win_condition_Either ==
    /\ Sys("CW")
    /\ pc' = pc + 1
    /\ IF score.clusters_popped > 0 \/ is_empty(grid)
       THEN /\ high_scores' = add_score(high_scores, ScoreEntry)
            /\ next_menu' = "Credits"
       ELSE UNCHANGED <<high_scores, next_menu>>
    /\ UNCHANGED <<sched, probe, grid, grid_offset, projectiles, shooter, level, score,
                   powers, fire_msgs, landed_msgs, popped_for_floating,
                   popped_for_score, floating_msgs, descent_msgs, danger_msgs, menu,
                   paused, next_pause, powerup_choices, next_entity, shots_fired,
                   dc_log>>

\* state.rs check_win_condition
check_win_condition ==
    /\ Sys("CW")
    /\ pc' = pc + 1
    /\ IF score.clusters_popped > 0 /\ is_empty(grid)
       THEN /\ high_scores' = add_score(high_scores, ScoreEntry)
            /\ next_menu' = "Credits"
       ELSE UNCHANGED <<high_scores, next_menu>>
    /\ UNCHANGED <<sched, probe, grid, grid_offset, projectiles, shooter, level, score,
                   powers, fire_msgs, landed_msgs, popped_for_floating,
                   popped_for_score, floating_msgs, descent_msgs, danger_msgs, menu,
                   paused, next_pause, powerup_choices, next_entity, shots_fired,
                   dc_log>>

\* state.rs check_lose_condition
check_lose_condition ==
    /\ Sys("CL")
    /\ pc' = pc + 1
    /\ IF \E c \in DOMAIN grid : grid[c].live /\ grid[c].y < STATE_DANGER_LINE_Y
       THEN /\ high_scores' = add_score(high_scores, ScoreEntry)
            /\ next_menu' = "GameOver"
       ELSE UNCHANGED <<high_scores, next_menu>>
    /\ UNCHANGED <<sched, probe, grid, grid_offset, projectiles, shooter, level, score,
                   powers, fire_msgs, landed_msgs, popped_for_floating,
                   popped_for_score, floating_msgs, descent_msgs, danger_msgs, menu,
                   paused, next_pause, powerup_choices, next_entity, shots_fired,
                   dc_log>>

\* state.rs check_danger_zone_game_over
RECURSIVE AddScoreTimes(_, _, _)
AddScoreTimes(scores, entry, n) ==
    IF n = 0 THEN scores ELSE AddScoreTimes(add_score(scores, entry), entry, n - 1)

check_danger_zone_game_over ==
    /\ Sys("DZ")
    /\ pc' = pc + 1
    /\ IF danger_msgs # <<>>
       THEN /\ high_scores' = AddScoreTimes(high_scores, ScoreEntry, Len(danger_msgs))
            /\ next_menu' = "GameOver"
       ELSE UNCHANGED <<high_scores, next_menu>>
    /\ danger_msgs' = <<>>
    /\ UNCHANGED <<sched, probe, grid, grid_offset, projectiles, shooter, level, score,
                   powers, fire_msgs, landed_msgs, popped_for_floating,
                   popped_for_score, floating_msgs, descent_msgs, menu, paused,
                   next_pause, powerup_choices, next_entity, shots_fired, dc_log>>

\* ---------------------------------------------------------- frame boundary
\* Messages live for the frame they are written in and the next one.
Aged(msgs) == [i \in 1..Len(SelectSeq(msgs, LAMBDA m : m.age = 0)) |->
                  [SelectSeq(msgs, LAMBDA m : m.age = 0)[i] EXCEPT !.age = 1]]

\* The end of Update and the start of the next frame: the last sync point,
\* the message update, the state transitions (entering Menu::GameOver asks
\* for the pause), and the pausable systems are skipped while paused.
end_of_frame ==
    /\ pc = Len(sched) + 1
    /\ projectiles' = Flushed(projectiles)
    /\ grid' = Materialized(grid)
    /\ fire_msgs' = Aged(fire_msgs)
    /\ landed_msgs' = Aged(landed_msgs)
    /\ popped_for_floating' = Aged(popped_for_floating)
    /\ popped_for_score' = Aged(popped_for_score)
    /\ floating_msgs' = Aged(floating_msgs)
    /\ descent_msgs' = Aged(descent_msgs)
    /\ danger_msgs' = Aged(danger_msgs)
    /\ menu' = IF next_menu = Unset THEN menu ELSE next_menu
    /\ next_menu' = Unset
    /\ paused' = IF next_pause = Unset THEN paused ELSE next_pause = "Paused"
    /\ next_pause' = IF menu' = "GameOver" /\ menu # "GameOver" THEN "Paused" ELSE Unset
    /\ pc' = IF paused' THEN Len(sched) + 1 ELSE 1
    /\ dc_log' = <<>>
    /\ UNCHANGED <<sched, probe, grid_offset, shooter, level, score, powers, high_scores,
                   powerup_choices, next_entity, shots_fired>>

Next ==
    \/ handle_fire_input
    \/ reload_shooter
    \/ spawn_projectile
    \/ move_projectile
    \/ check_wall_collision
    \/ check_bubble_collision
    \/ apply_deferred_after_projectiles
    \/ detect_clusters
    \/ apply_deferred_in_chain
    \/ detect_floating_bubbles
    \/ update_score
    \/ handle_descent
    \/ check_win_condition
    \/ check_lose_condition
    \/ check_danger_zone_game_over
    \/ end_of_frame

Spec == Init /\ [][Next]_vars

\* RoundSpec runs the game with handle_descent between handle_fire_input
\* and reload_shooter, one more order the plugins allow, on the starting
\* games that are one shot from their descent.
RoundOrders ==
    { s \in { <<"HF", "SP", "MV", "BC", "WC", "AD1", "DC", "AD2", "DF",
                "US", "CW", "CL", "DZ", "HD", "RS">> } : IsSchedule(s) }

RoundGames == { g \in StartGames : g.shots = ShotsUntilDescentFor(g.level) - 1 }

RoundInit == StartOf(RoundOrders, RoundGames)

RoundSpec == RoundInit /\ [][Next]_vars

\* The frames keep running: Bevy runs the Update schedule frame after
\* frame, so the position in the schedule keeps moving.  (While the game is
\* paused the pausable systems are skipped and the position stands still;
\* the runs in which it does so for ever are not runs of LiveSpec.)
LiveSpec == Spec /\ WF_pc(pc' \in 1..(Len(sched) + 1))

\* ------------------------------------------- the functions on their own
\* HexSpec calls one function of hex.rs or grid.rs on one input: Init draws
\* the input, an action applies the function and keeps what it returned.
\* For closest_empty_cell the grid and the origin are those of the state.
ProbeCoords == {<<q, r>> : q \in (-MaxProbe)..MaxProbe, r \in (-MaxProbe)..MaxProbe}

\* cells of either row parity and sign to measure distances from
DistanceFrom == {<<0, 0>>, <<0, 1>>, <<-1, -1>>, <<2, -2>>}

\* the cells a game up to level MaxLevel may hold a bubble in
GameCoords == {<<q, r>> : q \in MIN_Q..MAX_Q, r \in (1 - MaxLevel)..MAX_R}

\* every cell inside the bounds holds a bubble
SaturatedCells ==
    [i \in 1..((MAX_Q - MIN_Q + 1) * (MAX_R - MIN_R + 1)) |->
        LET r == MIN_R + (i - 1) \div (MAX_Q - MIN_Q + 1)
            q == MIN_Q + ((i - 1) % (MAX_Q - MIN_Q + 1))
        IN <<q, r, FreshColor(q, r)>>]

ProbeGrids == {<<>>, ChainCells, DeepCells, FarCells, SaturatedCells}

ProbeOrigins == {OriginAt(2), OriginAt(MaxLevel)}

\* world positions <<x, y>>: left of the wall, centre, right, and from above
\* the top wall down to the shooter's half
ProbePositions == {<<x, y>> : x \in {-13, 0, 5, 12}, y \in {270, 250, 100, -100}}

ProbeInputs ==
    { [fn |-> "neighbors", a |-> a, b |-> <<0, 0>>, pos |-> <<0, 0>>,
       cells |-> <<>>, origin |-> GRID_ORIGIN_Y] : a \in ProbeCoords }
    \cup { [fn |-> "distance", a |-> a, b |-> b, pos |-> <<0, 0>>,
            cells |-> <<>>, origin |-> GRID_ORIGIN_Y] :
           a \in DistanceFrom, b \in ProbeCoords }
    \cup { [fn |-> "to_pixel_with_offset", a |-> a, b |-> <<0, 0>>, pos |-> <<0, 0>>,
            cells |-> <<>>, origin |-> OriginAt(lv)] :
           a \in GameCoords, lv \in 1..MaxLevel }
    \cup { [fn |-> "closest_empty_cell", a |-> <<0, 0>>, b |-> <<0, 0>>, pos |-> p,
            cells |-> cs, origin |-> o] :
           p \in ProbePositions, cs \in ProbeGrids, o \in ProbeOrigins }

HexInit ==
    /\ \E t \in ProbeInputs :
        /\ probe = [fn |-> t.fn, a |-> t.a, b |-> t.b, pos |-> t.pos,
                    done |-> FALSE, out |-> <<>>]
        /\ grid = GridOf(t.cells, t.origin)
        /\ grid_offset = t.origin
    /\ sched = <<>>
    /\ pc = 1
    /\ projectiles = <<>>
    /\ shooter = [state |-> "Ready", loaded |-> 1, next |-> 2,
                  second_next |-> 1, third_next |-> 1]
    /\ level = [level |-> 1, shots_until_descent |-> ShotsUntilDescentFor(1),
                shots_this_round |-> 0]
    /\ score = [score |-> 0, bubbles_popped |-> 0, clusters_popped |-> 0]
    /\ powers = <<>>
    /\ high_scores = <<>>
    /\ fire_msgs = <<>>
    /\ landed_msgs = <<>>
    /\ popped_for_floating = <<>>
    /\ popped_for_score = <<>>
    /\ floating_msgs = <<>>
    /\ descent_msgs = <<>>
    /\ danger_msgs = <<>>
    /\ menu = "None"
    /\ next_menu = Unset
    /\ paused = FALSE
    /\ next_pause = Unset
    /\ powerup_choices = <<>>
    /\ next_entity = 1
    /\ shots_fired = 0
    /\ dc_log = <<>>

game_vars == <<sched, pc, grid, grid_offset, projectiles, shooter, level, score,
               powers, high_scores, fire_msgs, landed_msgs, popped_for_floating,
               popped_for_score, floating_msgs, descent_msgs, danger_msgs, menu,
               next_menu, paused, next_pause, powerup_choices, next_entity,
               shots_fired, dc_log>>

Calls(fn) == probe.fn = fn /\ ~probe.done

apply_neighbors ==
    /\ Calls("neighbors")
    /\ probe' = [probe EXCEPT !.done = TRUE, !.out = neighbors(probe.a)]
    /\ UNCHANGED game_vars

apply_distance ==
    /\ Calls("distance")
    /\ probe' = [probe EXCEPT !.done = TRUE, !.out = <<distance(probe.a, probe.b)>>]
    /\ UNCHANGED game_vars

\* the position of a cell, handed on to from_pixel_with_offset
apply_to_pixel_with_offset ==
    /\ Calls("to_pixel_with_offset")
    /\ probe' = [probe EXCEPT !.fn = "from_pixel_with_offset",
                              !.pos = to_pixel_with_offset(probe.a, grid_offset)]
    /\ UNCHANGED game_vars

apply_from_pixel_with_offset ==
    /\ Calls("from_pixel_with_offset")
    /\ probe' = [probe EXCEPT !.done = TRUE,
                              !.out = from_pixel_with_offset(probe.pos, grid_offset)]
    /\ UNCHANGED game_vars

apply_closest_empty_cell ==
    /\ Calls("closest_empty_cell")
    /\ probe' = [probe EXCEPT !.done = TRUE,
                              !.out = closest_empty_cell(grid, probe.pos, grid_offset)]
    /\ UNCHANGED game_vars

HexNext ==
    \/ apply_neighbors
    \/ apply_distance
    \/ apply_to_pixel_with_offset
    \/ apply_from_pixel_with_offset
    \/ apply_closest_empty_cell

HexSpec == HexInit /\ [][HexNext]_vars

\* ------------------------------------------------- random_choices on its own
\* a list of unlocked power-ups holding the members of S once each
InOrder(S) == SelectSeq(for_tier(1) \o for_tier(2), LAMBDA p : p \in S)

\* levels on both sides of the tier boundary
ChoiceLevels == {1, 5, 10, 14, 15, 20, 45}

\* a call of random_choices with any level of ChoiceLevels and any list of
\* unlocked power-ups
ChoiceInit ==
    /\ probe = [NoProbe EXCEPT !.fn = "random_choices"]
    /\ \E lv \in ChoiceLevels :
          level = [level |-> lv, shots_until_descent |-> ShotsUntilDescentFor(lv),
                   shots_this_round |-> 0]
    /\ powers \in {InOrder(S) : S \in SUBSET AllPowerUps}
    /\ grid = GridOf(<<>>, GRID_ORIGIN_Y)
    /\ grid_offset = GRID_ORIGIN_Y
    /\ sched = <<>>
    /\ pc = 1
    /\ projectiles = <<>>
    /\ shooter = [state |-> "Ready", loaded |-> 1, next |-> 2,
                  second_next |-> 1, third_next |-> 1]
    /\ score = [score |-> 0, bubbles_popped |-> 0, clusters_popped |-> 0]
    /\ high_scores = <<>>
    /\ fire_msgs = <<>>
    /\ landed_msgs = <<>>
    /\ popped_for_floating = <<>>
    /\ popped_for_score = <<>>
    /\ floating_msgs = <<>>
    /\ descent_msgs = <<>>
    /\ danger_msgs = <<>>
    /\ menu = "None"
    /\ next_menu = Unset
    /\ paused = FALSE
    /\ next_pause = Unset
    /\ powerup_choices = <<>>
    /\ next_entity = 1
    /\ shots_fired = 0
    /\ dc_log = <<>>

apply_random_choices ==
    /\ Calls("random_choices")
    /\ \E choices \in random_choices(level.level, unlocked) :
          probe' = [probe EXCEPT !.done = TRUE, !.out = choices]
    /\ UNCHANGED game_vars

ChoiceNext == apply_random_choices

ChoiceSpec == ChoiceInit /\ [][ChoiceNext]_vars

\* ------------------------------------------------------ add_score on its own
\* the scores and bubble counts of the entries handed to add_score
EntryScores == 0..2
EntryBubbles == 1..2

\* HighScores::default, an empty list
ScoreInit ==
    /\ probe = [NoProbe EXCEPT !.fn = "add_score"]
    /\ high_scores = <<>>
    /\ level = [level |-> 1, shots_until_descent |-> ShotsUntilDescentFor(1),
                shots_this_round |-> 0]
    /\ powers = <<>>
    /\ grid = GridOf(<<>>, GRID_ORIGIN_Y)
    /\ grid_offset = GRID_ORIGIN_Y
    /\ sched = <<>>
    /\ pc = 1
    /\ projectiles = <<>>
    /\ shooter = [state |-> "Ready", loaded |-> 1, next |-> 2,
                  second_next |-> 1, third_next |-> 1]
    /\ score = [score |-> 0, bubbles_popped |-> 0, clusters_popped |-> 0]
    /\ fire_msgs = <<>>
    /\ landed_msgs = <<>>
    /\ popped_for_floating = <<>>
    /\ popped_for_score = <<>>
    /\ floating_msgs = <<>>
    /\ descent_msgs = <<>>
    /\ danger_msgs = <<>>
    /\ menu = "None"
    /\ next_menu = Unset
    /\ paused = FALSE
    /\ next_pause = Unset
    /\ powerup_choices = <<>>
    /\ next_entity = 1
    /\ shots_fired = 0
    /\ dc_log = <<>>

\* a call of add_score; probe keeps the entry and the value returned
apply_add_score ==
    /\ probe.fn = "add_score"
    /\ \E sc \in EntryScores, bp \in EntryBubbles :
        LET entry == [score |-> sc, bubbles_popped |-> bp]
        IN /\ high_scores' = add_score(high_scores, entry)
           /\ probe' = [probe EXCEPT !.a = <<sc, bp>>, !.done = TRUE,
                                     !.out = <<add_score_returns(high_scores, entry)>>]
    /\ UNCHANGED <<sched, pc, grid, grid_offset, projectiles, shooter, level, score,
                   powers, fire_msgs, landed_msgs, popped_for_floating,
                   popped_for_score, floating_msgs, descent_msgs, danger_msgs, menu,
                   next_menu, paused, next_pause, powerup_choices, next_entity,
                   shots_fired, dc_log>>

ScoreNext == apply_add_score

ScoreSpec == ScoreInit /\ [][ScoreNext]_vars

\* ------------------------------------------- levels, score and power-ups
\* menus/powerup_select.rs select_powerup: a click on one of the buttons of
\* the power-up menu, between two frames.  (What resumes the game once the
\* menu has closed is not part of this model.)
select_powerup ==
    /\ menu = "PowerUpSelect"
    /\ pc = Len(sched) + 1
    /\ \E p \in SeqToSet(powerup_choices) :
        /\ powers' = add(powers, p)
        /\ next_menu' = "None"
    /\ UNCHANGED <<sched, probe, pc, grid, grid_offset, projectiles, shooter, level,
                   score, high_scores, fire_msgs, landed_msgs, popped_for_floating,
                   popped_for_score, floating_msgs, descent_msgs, danger_msgs, menu,
                   paused, next_pause, powerup_choices, next_entity, shots_fired,
                   dc_log>>

\* LevelSpec runs the systems that count shots, score and levels on games
\* in progress at the levels around the power-up milestones, at the moment
\* a shot has ended: the shooter waits for its reload, and the messages of
\* the pops of the shot wait for update_score.
ProbeLevels == {1, 4, 9, 14, 19, 24, 39, 44}

\* the power-ups a game at level lv may hold: one for each milestone passed
UnlockedAt(lv) ==
    LET k == lv \div 5
        first == {"SpeedySnord", "EagleEye"}
    IN IF k = 0 THEN {{}}
       ELSE IF k = 1 THEN {{"SpeedySnord"}}
       ELSE IF k = 2 THEN {first}
       ELSE IF k = 3 THEN {first \cup {"Procrastisnord"}, first \cup {"ComboSnord"}}
       ELSE IF k = 4 THEN {first \cup {"Procrastisnord", "ComboSnord"}}
       ELSE IF k = 7 THEN {AllPowerUps \ {"Sharpshooter"}}
       ELSE {AllPowerUps}

\* the shots of the round after the shot: the last before the descent is
\* due, the one that makes it due, and those Procrastisnord adds
ShotsAt(lv, unl) ==
    (ShotsUntilDescentFor(lv) - 1)
        ..(ShotsUntilDescentFor(lv) + (IF "Procrastisnord" \in unl THEN 2 ELSE 0))

\* the grids: empty, one bubble in the top row, and with it one bubble on
\* the last row above the danger line of state.rs
CellsAt(lv) ==
    { <<>>,
      << <<0, 1 - lv, 1>> >>,
      << <<0, 1 - lv, 1>>,
         <<MAX_Q, (GRID_ORIGIN_Y - STATE_DANGER_LINE_Y) \div RowHeight + 1 - lv, 1>> >> }

PoppedOf(n) == [coords |-> [i \in 1..n |-> <<i + MIN_Q, MIN_R>>], color |-> 1,
                count |-> n, age |-> 0]

FloatingOf(n) == [coords |-> {<<i + MIN_Q, MIN_R + 2>> : i \in 1..n}, count |-> n,
                  age |-> 0]

\* the messages of the pops of the shot
PoppedLists == {<<>>, <<PoppedOf(3)>>, <<PoppedOf(4)>>, <<PoppedOf(5), PoppedOf(3)>>}

FloatingLists == {<<>>, <<FloatingOf(2)>>}

\* the systems of LevelSpec still to run in the tick of the landing, behind
\* the cluster systems: all three, or update_score has run before them
LevelOrders == { [sched |-> <<"RS", "US", "HD">>, pc |-> 1],
                 [sched |-> <<"US", "RS", "HD">>, pc |-> 2] }

LevelInit ==
    /\ \E o \in LevelOrders : sched = o.sched /\ pc = o.pc
    /\ \E lv \in ProbeLevels :
        /\ \E cells \in CellsAt(lv) :
            /\ grid = GridOf(cells, OriginAt(lv))
            /\ next_entity = Len(cells) + 1
            /\ score = StatsOf(lv, Len(cells), INITIAL_SHOTS_UNTIL_DESCENT * lv, lv)
        /\ grid_offset = OriginAt(lv)
        /\ powers \in {InOrder(S) : S \in UnlockedAt(lv)}
        /\ \E n \in ShotsAt(lv, unlocked) :
            level = [level |-> lv, shots_until_descent |-> ShotsUntilDescentFor(lv),
                     shots_this_round |-> n]
    /\ projectiles = <<>>
    /\ \E st \in {"Ready", "Reloading"} :
        shooter = [state |-> st, loaded |-> 1, next |-> 2, second_next |-> 1,
                   third_next |-> 1]
    /\ popped_for_score \in PoppedLists
    /\ floating_msgs \in FloatingLists
    /\ high_scores = <<>>
    /\ fire_msgs = <<>>
    /\ landed_msgs = <<>>
    /\ popped_for_floating = <<>>
    /\ descent_msgs = <<>>
    /\ danger_msgs = <<>>
    /\ menu = "None"
    /\ next_menu = Unset
    /\ paused = FALSE
    /\ next_pause = Unset
    /\ powerup_choices = <<>>
    /\ shots_fired = 0
    /\ dc_log = <<>>
    /\ probe = NoProbe

LevelNext ==
    \/ reload_shooter
    \/ update_score
    \/ handle_descent
    \/ end_of_frame
    \/ select_powerup

LevelSpec == LevelInit /\ [][LevelNext]_vars

\* ================================================================= claims
\* What the claims speak of, defined from the geometry and not from the
\* searches of the code.

\* two cells touch: their centres are one hex width apart
Adjacent(a, b) ==
    Distance2(to_pixel_with_offset(a, 0), to_pixel_with_offset(b, 0)) = 4 * XUnit2

\* the cells of `cells` joined to X by a chain of touching cells of `cells`
RECURSIVE Grow(_, _)
Grow(X, cells) ==
    LET Y == X \cup {c \in cells : \E x \in X : Adjacent(x, c)}
    IN IF Y = X THEN X ELSE Grow(Y, cells)

\* the start cell and every occupied cell of the colour joined to it
SameColorCluster(g, start, color) ==
    Grow({start}, {c \in DOMAIN g : g[c].color = color})

\* the occupied cells joined to the lowest occupied row index
AnchoredCells(g) ==
    Grow({c \in DOMAIN g : \A d \in DOMAIN g : c[2] <= d[2]}, DOMAIN g)

\* the system that has just run, "" at the start of a frame
JustRan == IF pc > 1 THEN sched[pc - 1] ELSE ""

\* the systems that have run in this frame
RanThisFrame == {sched[j] : j \in 1..(pc - 1)}

\* a landed message was handled in this frame and a cluster was popped
PoppedThisFrame == \E i \in 1..Len(dc_log) : dc_log[i].emitted # <<>>

\* C1: every call find_cluster(start, color) of a run returns exactly the
\* start cell and the occupied cells of that colour joined to it by touching
\* occupied cells of that colour, each once, and every returned cell is
\* occupied and of that colour.
C1_FindClusterExact ==
    \A i \in 1..Len(dc_log) :
        LET e == dc_log[i]
        IN /\ SeqToSet(e.cluster) = SameColorCluster(e.before, e.coord, e.color)
           /\ Cardinality(SeqToSet(e.cluster)) = Len(e.cluster)
           /\ \A c \in SeqToSet(e.cluster) :
                  c \in DOMAIN e.before /\ e.before[c].color = e.color

\* C2: when the same-coloured cluster that contains the landing cell has
\* n >= 3 cells, detect_clusters removes exactly those cells, keeps every
\* other bubble, and writes exactly one popped message with count n, the
\* landed colour and those cells.
C2_PopRemovesCluster ==
    \A i \in 1..Len(dc_log) :
        LET e == dc_log[i]
            cluster == SameColorCluster(e.before, e.coord, e.color)
        IN (e.coord \in DOMAIN e.before /\ Cardinality(cluster) >= MIN_CLUSTER_SIZE)
           => /\ DOMAIN e.after = DOMAIN e.before \ cluster
              /\ \A c \in DOMAIN e.after : e.after[c] = e.before[c]
              /\ Len(e.emitted) = 1
              /\ e.emitted[1].count = Cardinality(cluster)
              /\ e.emitted[1].color = e.color
              /\ SeqToSet(e.emitted[1].coords) = cluster

\* C3: when the same-coloured cluster that contains the landing cell has one
\* or two cells, detect_clusters removes nothing and writes no popped message.
C3_SmallClusterStays ==
    \A i \in 1..Len(dc_log) :
        LET e == dc_log[i]
        IN Cardinality(SameColorCluster(e.before, e.coord, e.color)) < MIN_CLUSTER_SIZE
           => e.after = e.before /\ e.emitted = <<>>

\* a landing whose cluster is the landed bubble and one neighbour of its colour
C3_Witness ==
    \E i \in 1..Len(dc_log) :
        LET e == dc_log[i]
        IN /\ e.coord \in DOMAIN e.before
           /\ Cardinality(SameColorCluster(e.before, e.coord, e.color)) = 2
           /\ e.after = e.before
           /\ e.emitted = <<>>
           /\ popped_for_score = <<>>

C5_NoFloatingAfterLanding ==
    (JustRan = "DF" /\ dc_log # <<>>) => DOMAIN grid = AnchoredCells(grid)

\* the entities a pop of this frame took out of the grid
PoppedEntities ==
    UNION {{dc_log[i].before[c].id :
               c \in SeqToSet(dc_log[i].cluster) \cap DOMAIN dc_log[i].before} :
           i \in {j \in 1..Len(dc_log) : dc_log[j].emitted # <<>>}}

\* C6: when detect_floating_bubbles is about to read the grid, the pops of
\* this frame are what it reacts to and every bubble they popped is out of
\* the grid, so that none can be anchored or anchor another.
C6_FloatingReadsAfterPop ==
    Sys("DF")
    => /\ \A c \in DOMAIN grid : grid[c].id \notin PoppedEntities
       /\ \A c \in find_anchored_bubbles(grid) : grid[c].id \notin PoppedEntities
       /\ \A i \in 1..Len(popped_for_floating) : popped_for_floating[i].age = 0
       /\ PoppedThisFrame <=> popped_for_floating # <<>>

\* the floating search is about to run on a grid a pop has just changed
C6_Witness ==
    /\ Sys("DF")
    /\ popped_for_floating # <<>>
    /\ PoppedEntities # {}
    /\ DOMAIN grid # {}

\* C7: in every frame the phases act in the order motion, collision,
\* cluster, floating, score and win/lose, descent: a landing follows the
\* motion of its frame; the score update and the win and lose checks do not
\* run before a landing, a pop or a floating removal of their frame; a
\* descent does not run before the win and lose checks of its frame.
C7_PhaseOrder ==
    [][ /\ (pc <= Len(sched) /\ sched[pc] \in {"WC", "BC"} /\ landed_msgs' # landed_msgs)
            => "MV" \in RanThisFrame
        /\ (pc <= Len(sched) /\ sched[pc] \in {"WC", "BC", "DC", "DF"}
              /\ DOMAIN grid' # DOMAIN grid)
            => RanThisFrame \cap {"US", "CW", "CL"} = {}
        /\ (Sys("HD") /\ grid_offset' # grid_offset)
            => {"CW", "CL"} \subseteq RanThisFrame ]_vars

\* projectiles fired and neither landed nor discarded, spawned or not
InFlight ==
    Len(fire_msgs)
    + Cardinality({i \in 1..Len(projectiles) : projectiles[i].st # "dying"})

\* C8: at most one projectile is in flight, counting a fire message whose
\* projectile is not spawned yet.
C8_OneProjectile == InFlight <= 1

\* C9: a projectile lands at most once: one landed message and one insert
\* into the grid.
C9_OneLanding ==
    /\ \A i \in 1..Len(projectiles) : projectiles[i].landings <= 1
    /\ \A i, j \in 1..Len(landed_msgs) :
           landed_msgs[i].proj = landed_msgs[j].proj => i = j

\* C10: the cell of every landing that is committed, through the top wall or
\* through a bubble collision, is not below the danger line of the projectile.
C10_LandingAboveDanger ==
    \A i \in 1..Len(landed_msgs) :
        to_pixel_with_offset(landed_msgs[i].coord, grid_offset)[2] >= DANGER_LINE_Y

\* the projectiles of the query that the top-wall test of
\* check_wall_collision sends to the landing resolution
AtTopWall ==
    {i \in 1..Len(projectiles) :
        InQuery(projectiles[i]) /\ projectiles[i].y + Radius > TOP_WALL}

\* closest_empty_cell finds no cell for the projectile at index i
FindsNoCell(i) ==
    closest_empty_cell(grid, <<projectiles[i].x, projectiles[i].y>>, grid_offset) = NoCell

\* C11: when closest_empty_cell returns none for the projectiles resolved
\* on the top-wall path, or for the one resolved on the bubble-collision
\* path, each of them is despawned, the grid stays as it is, and no landed
\* and no danger-zone message is written.
C11_NoCellDiscards ==
    [][ /\ (Sys("WC") /\ AtTopWall # {} /\ \A i \in AtTopWall : FindsNoCell(i))
            => /\ grid' = grid
               /\ landed_msgs' = landed_msgs
               /\ danger_msgs' = danger_msgs
               /\ Len(projectiles') = Len(projectiles)
               /\ \A i \in AtTopWall : projectiles'[i].st = "dying"
        /\ (Sys("BC") /\ FirstCollision # 0
              /\ projectiles[FirstCollision].y >= DANGER_LINE_Y
              /\ FindsNoCell(FirstCollision))
            => /\ grid' = grid
               /\ landed_msgs' = landed_msgs
               /\ danger_msgs' = danger_msgs
               /\ Len(projectiles') = Len(projectiles)
               /\ projectiles'[FirstCollision].st = "dying" ]_vars

\* check_wall_collision has just discarded a projectile for which the search
\* of the grid found no cell
C11_Witness ==
    /\ JustRan = "WC"
    /\ landed_msgs = <<>>
    /\ danger_msgs = <<>>
    /\ \E i \in AtTopWall :
           /\ projectiles[i].st = "dying"
           /\ projectiles[i].landings = 0
           /\ FindsNoCell(i)

\* C12: while the frames go on unpaused, the projectiles in flight all leave
\* flight (landed, danger zone or discarded), and a shooter that is
\* Reloading becomes Ready again.
C12_FlightAndReloadEnd ==
    /\ (InFlight > 0) ~> (InFlight = 0 \/ paused)
    /\ (shooter.state = "Reloading") ~> (shooter.state = "Ready" \/ paused)

\* a shot has been fired, its projectile is gone and the shooter is Ready
C12_Witness ==
    /\ shots_fired >= 1
    /\ InFlight = 0
    /\ projectiles = <<>>
    /\ shooter.state = "Ready"
    /\ ~paused

\* C13: check_win_condition signals the win (asks for the win menu) in a
\* frame if and only if, when it runs, the grid is empty and
\* clusters_popped > 0; otherwise it leaves the menu and the high scores
\* alone.
C13_WinIffEmptyAndPopped ==
    [][ Sys("CW")
        => LET won == is_empty(grid) /\ score.clusters_popped > 0
           IN /\ (next_menu' = "Credits") <=> won
              /\ ~won => UNCHANGED <<next_menu, high_scores>> ]_vars

\* the win check has just signalled a win on an empty grid
C13_Witness ==
    /\ JustRan = "CW"
    /\ next_menu = "Credits"
    /\ is_empty(grid)
    /\ score.clusters_popped > 0
    /\ shots_fired >= 1

\* some occupied coordinate of the grid lies below the danger line of
\* state.rs
BelowDangerLine ==
    \E c \in DOMAIN grid :
        to_pixel_with_offset(c, grid_offset)[2] < STATE_DANGER_LINE_Y

\* all the systems of an unpaused frame have run
FrameDone == pc = Len(sched) + 1 /\ ~paused

\* C14: when the systems of a frame have run and some occupied coordinate
\* of the grid is below the danger line, the game over menu has been asked
\* for in that frame, also in the frame of the descent that moved the
\* bubble there.
C14_LossInSameTick == (FrameDone /\ BelowDangerLine) => next_menu = "GameOver"

\* the landing paths of projectile.rs treat a cell as danger zone
LandingRejects(c) == to_pixel_with_offset(c, grid_offset)[2] < DANGER_LINE_Y

\* a bubble in the cell makes check_lose_condition end the game
LossTriggers(c) == to_pixel_with_offset(c, grid_offset)[2] < STATE_DANGER_LINE_Y

\* C15: there is one danger threshold: an occupied cell is one the landing
\* paths reject as danger zone exactly when its bubble triggers the loss
\* check, and when the systems of a frame have run with a bubble resting in
\* a cell the landing paths reject, the game over menu has been asked for or
\* is shown.
C15_OneDangerThreshold ==
    /\ \A c \in DOMAIN grid : LandingRejects(c) <=> LossTriggers(c)
    /\ (FrameDone /\ \E c \in DOMAIN grid : LandingRejects(c))
           => (next_menu = "GameOver" \/ menu = "GameOver")

\* a call of the function has returned
Returned(fn) == probe.fn = fn /\ probe.done

\* the cell touches an occupied cell of the grid
TouchesBubble(c) == \E d \in DOMAIN grid : Adjacent(c, d)

\* C16: a cell that closest_empty_cell returns is unoccupied, and is inside
\* the bounds of the grid or touches an occupied cell.
C16_ReturnsLegalCell ==
    (Returned("closest_empty_cell") /\ probe.out # NoCell)
        => /\ probe.out \notin DOMAIN grid
           /\ \/ /\ probe.out[1] \in MIN_Q..MAX_Q
                 /\ probe.out[2] \in MIN_R..MAX_R
              \/ TouchesBubble(probe.out)

\* the ring search has returned a cell outside the bounds, next to a bubble
\* of a grid whose target cell was occupied
C16_Witness ==
    /\ Returned("closest_empty_cell")
    /\ from_pixel_with_offset(probe.pos, grid_offset) \in DOMAIN grid
    /\ probe.out # NoCell
    /\ probe.out \notin DOMAIN grid
    /\ ~contains(probe.out)
    /\ TouchesBubble(probe.out)

\* every cell inside the bounds is occupied
Saturated ==
    \A q \in MIN_Q..MAX_Q : \A r \in MIN_R..MAX_R : <<q, r>> \in DOMAIN grid

\* the number of touching-cell steps between two cells, from their cube
\* coordinates (odd rows stand half a cell to the right)
HexSteps(a, b) ==
    LET ax == a[1] - (a[2] - (a[2] % 2)) \div 2
        bx == b[1] - (b[2] - (b[2] % 2)) \div 2
        dx == ax - bx
        dz == a[2] - b[2]
    IN Max2(Abs(dx), Max2(Abs(dz), Abs(dx + dz)))

\* a cell a projectile may rest in: free, and inside the bounds or touching
\* a bubble
LegalCell(c) ==
    /\ c \notin DOMAIN grid
    /\ \/ c[1] \in MIN_Q..MAX_Q /\ c[2] \in MIN_R..MAX_R
       \/ TouchesBubble(c)

\* the rings the search looks at before it has seen more cells than its
\* cap: the cells within k steps of a cell are 1 + 3k(k + 1)
CapRings ==
    CHOOSE k \in 1..RING_SEARCH_CAP :
        /\ 1 + 3 * k * (k + 1) > RING_SEARCH_CAP
        /\ 1 + 3 * (k - 1) * k <= RING_SEARCH_CAP

\* no legal cell within the rings the search looks at around cell t
NoLegalCellNear(t) ==
    \A q \in (t[1] - CapRings)..(t[1] + CapRings) :
        \A r \in (t[2] - CapRings)..(t[2] + CapRings) :
            HexSteps(t, <<q, r>>) <= CapRings => ~LegalCell(<<q, r>>)

\* C17 as stated: on a grid whose cells inside the bounds are all occupied
\* closest_empty_cell returns none for every target position, and on any
\* grid it returns none only after the ring search has gone past its cap
\* without a legal cell.
C17_SaturatedGivesNone ==
    Returned("closest_empty_cell")
        => /\ Saturated => probe.out = NoCell
           /\ probe.out = NoCell
                 => NoLegalCellNear(from_pixel_with_offset(probe.pos, grid_offset))

\* C17, amended: closest_empty_cell returns for every grid and target; it
\* returns none exactly when no legal cell lies within the rings the
\* search looks at before the cap; on a grid whose cells inside the bounds
\* are all occupied the cell it returns is a free cell outside the bounds
\* that touches a bubble.
C17_NoneOnlyPastCap ==
    /\ Calls("closest_empty_cell")
          => LET cell == closest_empty_cell(grid, probe.pos, grid_offset)
             IN cell = NoCell \/ Len(cell) = 2
    /\ Returned("closest_empty_cell")
          => /\ probe.out = NoCell
                 <=> NoLegalCellNear(from_pixel_with_offset(probe.pos, grid_offset))
             /\ (Saturated /\ probe.out # NoCell)
                 => /\ probe.out \notin DOMAIN grid
                    /\ ~contains(probe.out)
                    /\ TouchesBubble(probe.out)

\* on a saturated grid the search has returned a cell
C17_Witness ==
    /\ Returned("closest_empty_cell")
    /\ Saturated
    /\ contains(from_pixel_with_offset(probe.pos, grid_offset))
    /\ probe.out # NoCell

\* the search has given up past its cap
C17_WitnessNone ==
    /\ Returned("closest_empty_cell")
    /\ probe.out = NoCell

\* C18: neighbors(a) is six pairwise distinct cells, none of them a, and
\* b is among the neighbors of a exactly when a is among the neighbors of b.
C18_SixSymmetricNeighbors ==
    Returned("neighbors")
        => /\ Len(probe.out) = 6
           /\ \A i, j \in 1..6 : probe.out[i] = probe.out[j] => i = j
           /\ \A i \in 1..6 : probe.out[i] # probe.a
           /\ \A i \in 1..6 : probe.a \in SeqToSet(neighbors(probe.out[i]))
           /\ \A b \in ProbeCoords :
                  probe.a \in SeqToSet(neighbors(b)) => b \in SeqToSet(probe.out)

\* the neighbors of a cell of an odd row above row 0 have been computed
C18_Witness ==
    /\ Returned("neighbors")
    /\ probe.a[2] < 0
    /\ IsOddRow(probe.a[2])
    /\ Len(probe.out) = 6

\* C19: from_pixel_with_offset gives back the cell whose position
\* to_pixel_with_offset computed, for rows of either parity and sign and
\* for the grid origin of every level.
C19_PixelRoundTrip ==
    Returned("from_pixel_with_offset")
        => /\ probe.pos = to_pixel_with_offset(probe.a, grid_offset)
           /\ probe.out = probe.a

\* the round trip of a cell of an odd row above row 0 after the descents
C19_Witness ==
    /\ Returned("from_pixel_with_offset")
    /\ probe.a[2] < 0
    /\ IsOddRow(probe.a[2])
    /\ grid_offset = OriginAt(MaxLevel)
    /\ probe.out = probe.a

\* the least number of steps, each to one of the neighbors() of a cell,
\* that lead from a cell of X to b, counted from n
RECURSIVE StepsFrom(_, _, _)
StepsFrom(X, b, n) ==
    IF b \in X THEN n
    ELSE StepsFrom(X \cup UNION {SeqToSet(neighbors(x)) : x \in X}, b, n + 1)

\* C20: distance(a, b) is the least number of neighbors() steps from a to
\* b, and it is 1 exactly when b is one of the neighbors of a.
C20_DistanceIsSteps ==
    Returned("distance")
        => /\ probe.out[1] = StepsFrom({probe.a}, probe.b, 0)
           /\ probe.out[1] = 1 <=> probe.b \in SeqToSet(neighbors(probe.a))

RECURSIVE SumSeq(_)
SumSeq(ns) == IF ns = <<>> THEN 0 ELSE Head(ns) + SumSeq(Tail(ns))

\* the sum of F(count) over the messages of a list
SumOver(evs, F(_)) == SumSeq([i \in 1..Len(evs) |-> F(evs[i].count)])

\* the points of a popped cluster of n bubbles
PoppedPoints(n) ==
    IF "ComboSnord" \in unlocked /\ n > 3 THEN 10 * n + (10 * n) \div 2 ELSE 10 * n

\* the points of n floating bubbles
FloatingPoints(n) == n * 10 * 2

Count(n) == n

\* the GameScore of the game LevelSpec started from, while the level is the
\* one it started at
StartScore ==
    StatsOf(level.level, Cardinality(DOMAIN grid),
            INITIAL_SHOTS_UNTIL_DESCENT * level.level, level.level)

\* C21: update_score adds, for every popped message of count n, 10n to the
\* score, or 10n + (10n)/2 when ComboSnord is unlocked and n > 3, n to
\* bubbles_popped and 1 to clusters_popped (next to what the floating
\* messages of the frame add).
C21_ClusterScore ==
    [][ Sys("US")
        => /\ score'.score = score.score + SumOver(popped_for_score, PoppedPoints)
                                         + SumOver(floating_msgs, FloatingPoints)
           /\ score'.bubbles_popped = score.bubbles_popped
                                         + SumOver(popped_for_score, Count)
                                         + SumOver(floating_msgs, Count)
           /\ score'.clusters_popped = score.clusters_popped + Len(popped_for_score)
      ]_vars

\* a cluster of 4 has scored 60 with ComboSnord
C21_Witness ==
    /\ JustRan = "US"
    /\ "ComboSnord" \in unlocked
    /\ score.score = StartScore.score + 60
    /\ score.bubbles_popped = StartScore.bubbles_popped + 4
    /\ score.clusters_popped = StartScore.clusters_popped + 1

\* C22: in a frame with floating messages only, update_score adds n * 10 * 2
\* to the score and n to bubbles_popped for every message of count n,
\* ComboSnord or not, and leaves clusters_popped as it was.
C22_FloatingScore ==
    [][ (Sys("US") /\ popped_for_score = <<>>)
        => score' = [score |-> score.score + SumOver(floating_msgs, FloatingPoints),
                     bubbles_popped |-> score.bubbles_popped
                                           + SumOver(floating_msgs, Count),
                     clusters_popped |-> score.clusters_popped]
      ]_vars

\* two floating bubbles have scored 40 with ComboSnord
C22_Witness ==
    /\ JustRan = "US"
    /\ "ComboSnord" \in unlocked
    /\ score.score = StartScore.score + 40
    /\ score.bubbles_popped = StartScore.bubbles_popped + 2
    /\ score.clusters_popped = StartScore.clusters_popped

\* C23: no step of a run lowers score, bubbles_popped or clusters_popped,
\* and a step changes them only if it is update_score reading a popped or
\* a floating message.
C23_CountersOnlyGrow ==
    [][ /\ score'.score >= score.score
        /\ score'.bubbles_popped >= score.bubbles_popped
        /\ score'.clusters_popped >= score.clusters_popped
        /\ score' # score
              => Sys("US") /\ (popped_for_score # <<>> \/ floating_msgs # <<>>)
      ]_vars

\* update_score has counted the pop of this frame, after a shot
C23_Witness ==
    /\ JustRan = "US"
    /\ "DC" \in RanThisFrame
    /\ PoppedThisFrame
    /\ shots_fired >= 1
    /\ popped_for_score = <<>>
    /\ score.clusters_popped >= 2

\* the shots of a round after which a descent is due
DescentThreshold ==
    level.shots_until_descent + (IF "Procrastisnord" \in unlocked THEN 2 ELSE 0)

\* this step is the reload of the shooter
Reloads == Sys("RS") /\ shooter.state = "Reloading" /\ shooter'.state = "Ready"

\* this step writes a TriggerDescent message
TriggersDescent == descent_msgs' = Append(descent_msgs, [age |-> 0])

\* this step is handle_descent running a descent
RunsDescent == Sys("HD") /\ grid_offset' = grid_offset - RowHeight

\* C24: a step triggers a descent exactly when it is a reload of the
\* shooter with shots_this_round at or above the threshold
\* (shots_until_descent, two more with Procrastisnord); every descent that
\* runs takes one trigger, and no trigger is dropped without its descent.
C24_DescentAtThreshold ==
    [][ /\ TriggersDescent <=> (Reloads /\ level.shots_this_round >= DescentThreshold)
        /\ RunsDescent <=> (Sys("HD") /\ descent_msgs # <<>>)
        /\ RunsDescent => Len(descent_msgs') = Len(descent_msgs) - 1
        /\ (Len(descent_msgs') < Len(descent_msgs)) => RunsDescent
      ]_vars

\* a reload with Procrastisnord has triggered a descent, two shots past
\* shots_until_descent
C24_Witness ==
    /\ JustRan = "RS"
    /\ "Procrastisnord" \in unlocked
    /\ shooter.state = "Ready"
    /\ level.shots_this_round = level.shots_until_descent + 2
    /\ descent_msgs = <<[age |-> 0]>>

\* the lowest occupied row index, 0 for an empty grid
MinRow ==
    IF DOMAIN grid = {} THEN 0
    ELSE CHOOSE m \in {c[2] : c \in DOMAIN grid} : \A c \in DOMAIN grid : m <= c[2]

\* C25: a descent keeps every bubble of the grid at its coordinate, with its
\* identity and colour, lowers the grid origin by one row height
\* (1.5 * HEX_SIZE), and adds one new bubble in each cell (q, m - 1) for q
\* from min_q to max_q, m being the lowest occupied row index before (0 for
\* an empty grid), and none elsewhere; no cell that held a bubble gets
\* another.
C25_DescentAddsTopRow ==
    [][ RunsDescent
        => /\ \A c \in DOMAIN grid :
                 /\ c \in DOMAIN grid'
                 /\ grid'[c].id = grid[c].id
                 /\ grid'[c].color = grid[c].color
           /\ 2 * (grid_offset - grid_offset') = 3 * HEX_SIZE
           /\ DOMAIN grid' \ DOMAIN grid = {<<q, MinRow - 1>> : q \in MIN_Q..MAX_Q}
           /\ Cardinality(DOMAIN grid') = Cardinality(DOMAIN grid) + (MAX_Q - MIN_Q + 1)
           /\ \A c, d \in DOMAIN grid' : grid'[c].id = grid'[d].id => c = d
      ]_vars

\* a descent has put a new row above the two bubbles of a grid
C25_Witness ==
    /\ JustRan = "HD"
    /\ Cardinality(DOMAIN grid) = 2 + (MAX_Q - MIN_Q + 1)
    /\ \E c \in DOMAIN grid :
        /\ grid[c].live
        /\ grid[c].y = to_pixel_with_offset(c, grid_offset)[2]
        /\ \A q \in MIN_Q..MAX_Q : <<q, c[2] - 1>> \in DOMAIN grid
                                       /\ ~grid[<<q, c[2] - 1>>].live

\* after this step some occupied coordinate lies below the danger line of
\* state.rs
LeavesBubbleBelow ==
    \E c \in DOMAIN grid' :
        to_pixel_with_offset(c, grid_offset')[2] < STATE_DANGER_LINE_Y

\* C26: a descent that leaves a bubble below the danger line writes the
\* game over (danger zone) message and leaves level, shots_this_round,
\* shots_until_descent and the power-up offer as they were; a descent that
\* advances the level or offers power-ups leaves no bubble below the line.
C26_DangerBeforeAdvance ==
    [][ RunsDescent
        => /\ LeavesBubbleBelow
                 => /\ danger_msgs' = Append(danger_msgs, [age |-> 0])
                    /\ UNCHANGED <<level, powerup_choices, next_menu, next_pause>>
           /\ (level' # level \/ powerup_choices' # powerup_choices)
                 => ~LeavesBubbleBelow /\ danger_msgs' = danger_msgs
      ]_vars

\* this step is a descent that does not end the game
DescentSucceeds == RunsDescent /\ danger_msgs' = danger_msgs

\* C27: a successful descent raises level by 1, sets shots_this_round to 0
\* and shots_until_descent to max(5, 8 - level / 10) of the new level; level
\* is at least 1 and shots_until_descent between 5 and 8 in every state; no
\* step lowers level or raises shots_until_descent, and only a successful
\* descent changes them.
C27_LevelAdvance ==
    [][ /\ DescentSucceeds
              => /\ level'.level = level.level + 1
                 /\ level'.shots_this_round = 0
                 /\ level'.shots_until_descent
                        = Max2(5, 8 - (level'.level \div 10))
        /\ level.level >= 1 /\ level'.level >= 1
        /\ level.shots_until_descent \in 5..8
        /\ level'.shots_until_descent \in 5..8
        /\ level'.level >= level.level
        /\ level'.shots_until_descent <= level.shots_until_descent
        /\ (level'.level # level.level
               \/ level'.shots_until_descent # level.shots_until_descent)
              => DescentSucceeds
      ]_vars

\* a descent has brought the game to level 20 and the shots to 6
C27_Witness ==
    /\ JustRan = "HD"
    /\ level = [level |-> 20, shots_until_descent |-> 6, shots_this_round |-> 0]
    /\ danger_msgs = <<>>

\* C28: shots_remaining() is max(0, shots_until_descent - shots_this_round),
\* and the reload that follows a shot triggers a descent exactly when
\* shots_remaining() is 0 after that shot, whatever power-ups are unlocked.
C28_RemainingCountsToDescent ==
    [][ Reloads => (TriggersDescent <=> shots_remaining(level) = 0) ]_vars

\* without Procrastisnord the reload at shots_remaining() = 0 triggers the
\* descent, and the reload before it does not
C28_WithoutProcrastisnord ==
    [][ (Reloads /\ "Procrastisnord" \notin unlocked)
            => (TriggersDescent <=> shots_remaining(level) = 0) ]_vars

\* the power-ups of the tier of a level that are not unlocked
LockedOfTier(lv) ==
    SeqToSet(for_tier(IF lv < 15 THEN 1 ELSE 2)) \ unlocked

\* C29: random_choices(level, unlocked) returns min(3, number of power-ups
\* not unlocked) power-ups, pairwise distinct and none of them unlocked; when
\* at least 3 of the level's tier (tier 1 below level 15, tier 2 from 15)
\* are not unlocked, every choice is of that tier.
C29_ChoicesDistinctAndLocked ==
    Returned("random_choices") =>
        LET choices == probe.out
            locked  == AllPowerUps \ unlocked
        IN /\ Len(choices) = (IF Cardinality(locked) < 3 THEN Cardinality(locked) ELSE 3)
           /\ \A i, j \in 1..Len(choices) : choices[i] = choices[j] => i = j
           /\ \A i \in 1..Len(choices) : choices[i] \in locked
           /\ Cardinality(LockedOfTier(level.level)) >= 3
                 => \A i \in 1..Len(choices) : choices[i] \in LockedOfTier(level.level)

\* three tier-2 power-ups were returned at level 15 with one of that tier
\* and two of tier 1 unlocked
C29_Witness ==
    /\ Returned("random_choices")
    /\ level.level = 15
    /\ unlocked = {"SpeedySnord", "EagleEye", "Procrastisnord"}
    /\ probe.out = <<"Sharpshooter", "FortuneSnord", "ComboSnord">>

\* with fewer than 3 of the tier left, the choices are filled from the
\* other tier
C29_WitnessMixed ==
    /\ Returned("random_choices")
    /\ level.level = 20
    /\ Cardinality(LockedOfTier(20)) = 2
    /\ \E i \in 1..Len(probe.out) : probe.out[i] \in SeqToSet(for_tier(1))

\* this step offers a power-up choice
OffersPowerUps == next_menu' = "PowerUpSelect" /\ next_menu # "PowerUpSelect"

\* this step advances the level to a milestone with a power-up still locked
ReachesMilestone ==
    /\ level'.level = level.level + 1
    /\ level'.level % 5 = 0
    /\ unlocked # AllPowerUps

C30_WitnessAllUnlocked ==
    /\ JustRan = "HD"
    /\ level.level = 45 /\ level.shots_this_round = 0
    /\ unlocked = AllPowerUps
    /\ next_menu = Unset /\ powerup_choices = <<>>

\* a descent at level 19 has written the danger message; the level stays
\* and nothing is offered
C30_WitnessGameOver ==
    /\ JustRan = "HD"
    /\ level.level = 19
    /\ danger_msgs # <<>>
    /\ next_menu = Unset /\ powerup_choices = <<>>

\* the offer of C30 for descents that also leave no bubble below the danger
\* line
OfferWithNothingBelow ==
    [][ OffersPowerUps
            <=> (DescentSucceeds /\ ~LeavesBubbleBelow /\ ReachesMilestone) ]_vars

\* a list without a repeated element
NoDuplicate(sq) == \A i, j \in 1..Len(sq) : sq[i] = sq[j] => i = j

\* this step is a click on a button of the power-up menu
Selects == menu = "PowerUpSelect" /\ next_menu' = "None" /\ pc' = pc

\* C31: the list of unlocked power-ups never holds a duplicate; it changes
\* only by a selection, which appends one of the offered choices that was
\* not unlocked yet; every selection leaves its choice unlocked and removes
\* nothing.
C31_UnlockedOnlyGrows ==
    [][ /\ NoDuplicate(powers) /\ NoDuplicate(powers')
        /\ powers' # powers
              => /\ Selects
                 /\ \E p \in SeqToSet(powerup_choices) \ unlocked :
                        powers' = Append(powers, p)
        /\ Selects
              => \E p \in SeqToSet(powerup_choices) : unlocked' = unlocked \cup {p}
      ]_vars

\* a fourth power-up, one of the three offered, was selected at level 20
C31_Witness ==
    /\ level.level = 20
    /\ next_menu = "None"
    /\ Len(powers) = 4
    /\ powers[4] \in SeqToSet(powerup_choices)

\* the list without its i-th entry
Without(sq, i) == SubSeq(sq, 1, i - 1) \o SubSeq(sq, i + 1, Len(sq))

\* the high-score list is sorted by descending score, holds at most 10
\* entries and none of score 0
WellFormed(scores) ==
    /\ \A i \in 1..(Len(scores) - 1) : scores[i].score >= scores[i + 1].score
    /\ Len(scores) <= 10
    /\ \A i \in 1..Len(scores) : scores[i].score # 0

\* C32: from an empty list, after any calls of add_score the list is
\* sorted by descending score, holds at most 10 entries and none of score
\* 0; add_score returns false, leaving the list as it was, exactly for a
\* score of 0 or a full list whose lowest score is not below the new one;
\* when it returns true the entry is in the list, and the rest of the list
\* is the old list without the entry that fell off a full list.
C32_HighScoresSorted ==
    [][ probe'.fn = "add_score" =>
          LET entry == [score |-> probe'.a[1], bubbles_popped |-> probe'.a[2]]
              returned == probe'.out[1]
              kept == IF Len(high_scores) = 10 THEN 9 ELSE Len(high_scores)
          IN /\ WellFormed(high_scores) /\ WellFormed(high_scores')
             /\ returned = FALSE
                   <=> \/ entry.score = 0
                       \/ /\ Len(high_scores) = 10
                          /\ high_scores[10].score >= entry.score
             /\ returned = FALSE => high_scores' = high_scores
             /\ returned = TRUE
                   => \E i \in 1..Len(high_scores') :
                         /\ high_scores'[i] = entry
                         /\ Without(high_scores', i) = SubSeq(high_scores, 1, kept)
      ]_vars

\* an entry was added to a full list, and the lowest entry fell off
C32_Witness ==
    /\ probe.fn = "add_score" /\ probe.out = <<TRUE>>
    /\ probe.a = <<2, 1>>
    /\ Len(high_scores) = 10
    /\ high_scores[10].score = 2
    /\ high_scores[10] = [score |-> 2, bubbles_popped |-> 1]

\* a full list has refused an entry that does not beat its lowest score
C32_WitnessRefused ==
    /\ probe.fn = "add_score" /\ probe.out = <<FALSE>>
    /\ probe.a[1] = 1
    /\ Len(high_scores) = 10
    /\ high_scores[10].score = 1

\* this step is handle_fire_input accepting a fire command
AcceptsFire == Sys("HF") /\ fire_msgs' # fire_msgs

\* C33: handle_fire_input accepts a fire command only with the shooter
\* Ready and no projectile in the world; an accepted fire adds 1 to
\* shots_this_round, moves the shooter to Reloading and writes one fire
\* message carrying the loaded color; otherwise handle_fire_input leaves
\* the level, the shooter and the fire messages as they were.
C33_FireAccepted ==
    [][ /\ AcceptsFire
              => /\ shooter.state = "Ready"
                 /\ \A i \in 1..Len(projectiles) : ~InQuery(projectiles[i])
                 /\ level' = [level EXCEPT !.shots_this_round = @ + 1]
                 /\ shooter' = [shooter EXCEPT !.state = "Reloading"]
                 /\ Len(fire_msgs') = Len(fire_msgs) + 1
                 /\ SubSeq(fire_msgs', 1, Len(fire_msgs)) = fire_msgs
                 /\ fire_msgs'[Len(fire_msgs')].color = shooter.loaded
        /\ (Sys("HF") /\ ~AcceptsFire) => UNCHANGED <<level, shooter, fire_msgs>>
      ]_vars

\* a fire was accepted: the shooter reloads, a fire message was just written
C33_Witness ==
    /\ JustRan = "HF"
    /\ shooter.state = "Reloading"
    /\ fire_msgs # <<>> /\ fire_msgs[Len(fire_msgs)].age = 0
    /\ level.shots_this_round >= 1

\* handle_fire_input ran on a shooter that was reloading and wrote nothing
C33_WitnessRefused ==
    /\ JustRan = "HF"
    /\ shooter.state = "Reloading"
    /\ fire_msgs = <<>>
    /\ shots_fired < MaxShots

\* C34: the shooter goes from Reloading to Ready, and makes its descent
\* check, only when the shot is over: no fire message is unread and no
\* projectile is queued for spawning or in flight.
C34_ReloadAfterShot ==
    [][ Reloads => InFlight = 0 ]_vars

\* this step removes a popped or floating message that update_score has
\* not read
DropsEvent ==
    /\ ~Sys("US")
    /\ \/ Len(popped_for_score') < Len(popped_for_score)
       \/ Len(floating_msgs') < Len(floating_msgs)

\* C35: every popped and every floating message is read by update_score
\* exactly once: update_score counts every message that waits for it and
\* leaves none to be read again, and no other step removes a message
\* before update_score has read it.
C35_EventsCountedOnce ==
    [][ /\ ~DropsEvent
        /\ Sys("US")
              => /\ score'.bubbles_popped = score.bubbles_popped
                        + SumOver(popped_for_score, Count)
                        + SumOver(floating_msgs, Count)
                 /\ score'.clusters_popped
                        = score.clusters_popped + Len(popped_for_score)
                 /\ popped_for_score' = <<>> /\ floating_msgs' = <<>>
      ]_vars

\* C36: a cell that closest_empty_cell returns is a closest legal cell: no
\* legal cell lies at fewer neighbor steps from the cell of the position
\* than the cell returned, and a legal target cell is returned itself.
C36_ReturnsClosestCell ==
    (Returned("closest_empty_cell") /\ probe.out # NoCell)
        => LET t == from_pixel_with_offset(probe.pos, grid_offset)
               d == HexSteps(t, probe.out)
           IN /\ \A q \in (t[1] - d)..(t[1] + d) : \A r \in (t[2] - d)..(t[2] + d) :
                     LegalCell(<<q, r>>) => HexSteps(t, <<q, r>>) >= d
              /\ LegalCell(t) => probe.out = t

\* the ring search has returned a cell two or more steps from an occupied
\* target cell
C36_Witness ==
    /\ Returned("closest_empty_cell")
    /\ probe.out # NoCell
    /\ from_pixel_with_offset(probe.pos, grid_offset) \in DOMAIN grid
    /\ HexSteps(from_pixel_with_offset(probe.pos, grid_offset), probe.out) >= 2

\* C37: a run adds at most one entry to the high-score list (the list is
\* empty when the run starts).
C37_OneEntryPerRun == Len(high_scores) <= 1

\* the coordinates this step has put a bubble at
Inserted == DOMAIN grid' \ DOMAIN grid

\* C38: no insert goes to an occupied coordinate.  Before the first shot
\* the grid holds the INITIAL_ROWS * 13 bubbles of the initial fill; in
\* every step
\* a bubble that stays in the grid keeps its coordinate, and the landings
\* of the collision systems and the row of a descent take as many new
\* coordinates as bubbles are spawned for them.
C38_NoInsertOnOccupied ==
    [][ /\ (level.level = 1 /\ shots_fired = 0)
              => Cardinality(DOMAIN grid) = INITIAL_ROWS * (MAX_Q - MIN_Q + 1)
        /\ \A c \in DOMAIN grid \cap DOMAIN grid' : grid'[c].id = grid[c].id
        /\ (Sys("WC") \/ Sys("BC") \/ Sys("HD"))
              => Cardinality(Inserted) = next_entity' - next_entity
      ]_vars

\* both collision systems have landed the projectile in one tick, in two
\* cells
C38_Witness ==
    /\ JustRan \in {"WC", "BC"}
    /\ \E i \in 1..Len(projectiles) : projectiles[i].landings = 2
    /\ Len(landed_msgs) = 2
    /\ landed_msgs[1].coord # landed_msgs[2].coord

\* a descent has put its row above a grid that was not empty
C38_WitnessDescent ==
    /\ JustRan = "HD"
    /\ \E c \in DOMAIN grid : ~grid[c].live
    /\ \E c \in DOMAIN grid : grid[c].live

\* C39: shots_this_round is never above the descent threshold
\* (shots_until_descent, two more with Procrastisnord).
C39_ShotsWithinThreshold ==
    level.shots_this_round \in 0..DescentThreshold

\* C40: a landing on a grid that is not empty puts no bubble in a row above
\* the top row, the lowest occupied row index.
C40_LandingBelowTopRow ==
    [][ ((Sys("WC") \/ Sys("BC")) /\ DOMAIN grid # {})
            => \A c \in Inserted : c[2] >= MinRow ]_vars

====
